---- MODULE Spec2Model ----
(***************************************************************************)
(* liteflow: schema versioning on top of a database connection.            *)
(*                                                                         *)
(* This module models the migration engine of src/liteflow.go (the same    *)
(* code is in src/unnamed/part_002): DB.Upgrade, DB.Downgrade, DB.Version  *)
(* and DB.runFileAndSetVersion, over a database that stores one integer    *)
(* version (PRAGMA user_version) next to its content.                      *)
(*                                                                         *)
(* A caller's position inside a call is pc[c]; every blocking call to the  *)
(* connection or to the script source is one action, and its outcome (ok   *)
(* or a failure) is chosen by the environment.                             *)
(***************************************************************************)
EXTENDS Integers, Sequences, FiniteSets, TLC

\* Highest version number a migration script is indexed under.
MaxV == 3

\* const UpgradeNone int = -1
UpgradeNone == -1

\* const UpgradeAll int = 0
UpgradeAll == 0

Versions == 1 .. MaxV

\* The targets a caller passes to Upgrade and Downgrade.
Targets == UpgradeNone .. MaxV

\* The users of one *DB. The single-caller specification runs Main only.
Callers == {"main", "other"}

Main == "main"

\* No transaction holds the write lock.
NoWriter == "none"

VARIABLES
    upgrades,    \* DB.upgrades: version => upgrade filename for version
    downgrades,  \* DB.downgrades: version => downgrade filename from version
    db,          \* the committed database: user_version and script effects
    writer,      \* the caller whose transaction holds the write lock
    tx,          \* per caller: the *sql.Tx of runFileAndSetVersion
    pc,          \* per caller: position in Upgrade / Downgrade
    op,          \* per caller: "up" (Upgrade), "down" (Downgrade) or "none"
    target,      \* per caller: the version argument of the call
    vCurr,       \* per caller: local vCurr of Upgrade / Downgrade
    file,        \* per caller: filename argument of runFileAndSetVersion
    newver,      \* per caller: version argument of runFileAndSetVersion
    ret,         \* per caller: the (int, error) the last call returned
    start,       \* per caller: stored version when the call was made
    ran,         \* per caller: the scripts the call has committed, in order
    fault,       \* per caller: the failure the environment raised in the call
    trip,        \* per caller: N when the call before this one was Upgrade(N),
                 \* N > 0, made at version 0 and met no failure, else 0
    versionFS,   \* DB.versionFS: filesystem of upgrade/downgrade filenames
    queryFS,     \* DB.queryFS: filesystem of all prepared statements
    statements,  \* DB.statements: statement cache, name => *sql.Stmt
    prepared,    \* how many statements db.DB.Prepare has made so far
    txs,         \* per *Tx: its state and Tx.statements
    bindings,    \* how many statements tx.Stmt has made so far
    made,        \* the call of New: its options, position and results
    res          \* what the last named operation did

index == <<upgrades, downgrades>>
conn == <<db, writer, tx>>
sources == <<versionFS, queryFS>>
named == <<statements, prepared, txs, bindings, res>>
vars == <<upgrades, downgrades, db, writer, tx, pc, op, target, vCurr, file,
          newver, ret, start, ran, fault, trip, versionFS, queryFS,
          statements, prepared, txs, bindings, made, res>>

----------------------------------------------------------------------------
(* Script source and database content *)

\* A filename is the sequence of its characters. The decimal digits, in
\* the order of their values:
Digits == <<"0", "1", "2", "3", "4", "5", "6", "7", "8", "9">>

IsDigit(ch) == \E i \in DOMAIN Digits : Digits[i] = ch

DigitValue(ch) == (CHOOSE i \in DOMAIN Digits : Digits[i] = ch) - 1

\* The decimal spelling of n >= 0.
RECURSIVE Numeral(_)
Numeral(n) ==
    IF n < 10 THEN <<Digits[n + 1]>>
    ELSE Numeral(n \div 10) \o <<Digits[(n % 10) + 1]>>

\* The filename of the upgrade script for version v, e.g. "3.up.sql".
UpFile(v) == Numeral(v) \o <<".", "u", "p", ".", "s", "q", "l">>

\* The filename of the downgrade script from version v, e.g. "3.down.sql".
DownFile(v) ==
    Numeral(v) \o <<".", "d", "o", "w", "n", ".", "s", "q", "l">>

FileNames == {UpFile(v) : v \in Versions} \cup {DownFile(v) : v \in Versions}

\* The zero value of a filename: "".
NoFile == <<>>

\* A variant of FindString that finds the last run of digits.
FindLastString(fname) ==
    LET at == {i \in DOMAIN fname : IsDigit(fname[i])}
    IN  IF at = {} THEN <<>>
        ELSE LET b == CHOOSE i \in at : \A j \in at : j <= i
                 a == CHOOSE i \in 1 .. b :
                        /\ \A k \in i .. b : IsDigit(fname[k])
                        /\ \A j \in 1 .. b :
                             (\A k \in j .. b : IsDigit(fname[k])) => i <= j
             IN  SubSeq(fname, a, b)

\* rxVersion.FindString(entry.Name()), rxVersion = `\d+`: the leftmost
\* run of digits, as long as it goes, or "" when the name has no digit.
FindString(fname) ==
    LET at == {i \in DOMAIN fname : IsDigit(fname[i])}
    IN  IF at = {} THEN <<>>
        ELSE LET a == CHOOSE i \in at : \A j \in at : i <= j
                 b == CHOOSE i \in a .. Len(fname) :
                        /\ \A k \in a .. i : IsDigit(fname[k])
                        /\ \A j \in a .. Len(fname) :
                             (\A k \in a .. j : IsDigit(fname[k])) => j <= i
             IN  SubSeq(fname, a, b)

\* The value of a run of digits read as a decimal number, 0 for "".
RECURSIVE DigitsValue(_)
DigitsValue(run) ==
    IF run = <<>> THEN 0
    ELSE 10 * DigitsValue(SubSeq(run, 1, Len(run) - 1))
         + DigitValue(run[Len(run)])

\* The digits of the largest int, 1<<63 - 1, an int being 64 bits wide.
MaxIntDigits ==
    <<"9", "2", "2", "3", "3", "7", "2", "0", "3", "6", "8", "5", "4", "7",
      "7", "5", "8", "0", "7">>

\* A run of digits without the zeros it begins with.
RECURSIVE TrimZeros(_)
TrimZeros(run) ==
    IF run # <<>> /\ run[1] = "0" THEN TrimZeros(Tail(run)) ELSE run

\* Of two runs of the same length, a is the larger number.
RECURSIVE DigitsAbove(_, _)
DigitsAbove(a, b) ==
    IF a = <<>> THEN FALSE
    ELSE IF a[1] # b[1] THEN DigitValue(a[1]) > DigitValue(b[1])
    ELSE DigitsAbove(Tail(a), Tail(b))

\* The number a run of digits spells does not fit an int: strconv.ParseInt
\* ends with a range error.
OutOfRange(run) ==
    LET t == TrimZeros(run)
    IN  \/ Len(t) > Len(MaxIntDigits)
        \/ Len(t) = Len(MaxIntDigits) /\ DigitsAbove(t, MaxIntDigits)

\* vnum, _ := strconv.Atoi(run), of a run of digits: its value; 0 for "",
\* and the largest int for a run that spells a number out of range, the
\* error being dropped in both cases.
Atoi(run) ==
    IF OutOfRange(run) THEN DigitsValue(MaxIntDigits) ELSE DigitsValue(run)

\* rxUpgrade = `\.up\.` and rxDowngrade = `\.down\.`
RxUpgrade == <<".", "u", "p", ".">>
RxDowngrade == <<".", "d", "o", "w", "n", ".">>

\* rx.MatchString(fname), for an rx of literal characters: the name holds
\* them somewhere, in a row.
MatchString(rx, fname) ==
    \E i \in 1 .. (Len(fname) - Len(rx) + 1) :
        SubSeq(fname, i, i + Len(rx) - 1) = rx

\* The version a filename is indexed under.
VersionOf(fname) == Atoi(FindString(fname))

\* A fresh database: user_version 0 and no script applied.
FreshDB == [version |-> 0, applied |-> [v \in Versions |-> 0], partial |-> {}]

\* A database on which upgrades 1..n were applied by an earlier run.
DBAt(n) == [version |-> n,
            applied |-> [v \in Versions |-> IF v <= n THEN 1 ELSE 0],
            partial |-> {}]

\* tx.Exec(string(content)) running to its end. The script of a file holds
\* the schema step its name tells: an upgrade script puts the step of its
\* version in effect, a downgrade script takes it out.
RunScript(d, f) ==
    [d EXCEPT !.applied[VersionOf(f)] =
                IF MatchString(RxUpgrade, f) THEN @ + 1 ELSE @ - 1]

\* tx.Exec(string(content)) failing part-way: some statements of the script
\* took effect in the transaction before the error.
RunPartOfScript(d, f) == [d EXCEPT !.partial = @ \cup {f}]

\* A variant of SetVersion that leaves the stored version alone.
SetVersionDropped(d, n) == d

\* A variant of SetVersion that never lowers the stored version.
SetVersionUpOnly(d, n) == [d EXCEPT !.version = IF n > @ THEN n ELSE @]

\* tx.Exec("PRAGMA user_version = %d")
SetVersion(d, n) == [d EXCEPT !.version = n]

\* A variant of Rollback that leaves the transaction's content in place.
RollbackKeepsWork(d, w) == w

\* tx.Rollback(): the database keeps the committed content d and drops the
\* transaction's working content w.
Rollback(d, w) == d

\* tx.Commit() succeeding: the working content w becomes the database.
Commit(d, w) == w

\* No transaction.
NoTx == [open |-> FALSE, wrote |-> FALSE, work |-> FreshDB]

----------------------------------------------------------------------------
(* Results *)

NoError == "nil"

\* What the environment can make fail, named by the call that fails.
Faults == {"version", "notexist", "open", "read", "begin", "exec", "pragma",
           "commit"}

\* A variant of StepError that reports the absent script file as an error.
StepErrorAlways(e) == e

\* Upgrade / Downgrade on an error of runFileAndSetVersion:
\*   if errors.Is(err, fs.ErrNotExist) { return vCurr, nil }; return vCurr, err
StepError(e) == IF e = "notexist" THEN NoError ELSE e

\* A variant of UpgradeReached that is off by one.
UpgradeReachedLate(version, v) == version > 0 /\ v > version

\* A variant of UpgradeReached that forgets that 0 means no ceiling.
UpgradeReachedNoZero(version, v) == v >= version

\* A variant of UpgradeReached for which only 0 means no ceiling.
UpgradeReachedBelow(version, v) == version # 0 /\ v >= version

\* Upgrade: if version > 0 && vCurr >= version { break }
UpgradeReached(version, v) == version > 0 /\ v >= version

\* A variant of NextVersion that is off by one.
NextVersionSkips(v) == v + 2

\* A variant of NextVersion that jumps to the next indexed version.
NextIndexedVersion(v) ==
    IF \E n \in DOMAIN upgrades : n > v
    THEN CHOOSE n \in DOMAIN upgrades :
           n > v /\ \A m \in DOMAIN upgrades : m > v => n <= m
    ELSE v + 1

\* Upgrade: vNext := vCurr + 1
NextVersion(v) == v + 1

\* A variant of DowngradeReached that stops one version early.
DowngradeReachedEarly(version, v) == v <= version + 1

\* A variant of DowngradeReached that is off by one.
DowngradeReachedStrict(version, v) == v < version

\* Downgrade: if vCurr <= version { break }
DowngradeReached(version, v) == v <= version

\* A variant of DowngradeKey that looks up the version to go to.
DowngradeKeyBelow(v) == v - 1

\* Downgrade: db.downgrades[vCurr]
DowngradeKey(v) == v

\* A variant of PrevVersion that stays at the version it is at.
PrevVersionStays(v) == v

\* Downgrade: runFileAndSetVersion(nextFileName, vCurr-1)
PrevVersion(v) == v - 1

----------------------------------------------------------------------------
(* Errors of construction and of the statement cache *)

\* An error value: what failed, on which file and line, for which query,
\* and the name whose resolve it ended.
Err(kind, fname, line, query) ==
    [kind |-> kind, file |-> fname, line |-> line, query |-> query,
     name |-> ""]

NoName == [base |-> "", ext |-> ""]

\* The nil error.
NilErr == Err(NoError, NoName, 0, "")

\* A variant of Wrap that loses the error.
WrapLosesError(name, err) == NilErr

\* fmt.Errorf("could not load statement '%s': %w", name, err)
Wrap(name, err) == [err EXCEPT !.kind = "load:" \o @, !.name = name]

\* A variant of Join that reports an error for every error it was given,
\* nil or not.
JoinKeepsNil(errs) ==
    IF errs = <<>> THEN NilErr ELSE Err("join", NoName, Len(errs), "")

\* errors.Join(errs...): nil when every error is nil, else one error that
\* holds the non-nil ones.
Join(errs) ==
    LET nonnil == SelectSeq(errs, LAMBDA e : e.kind # NoError)
    IN  IF nonnil = <<>> THEN NilErr
        ELSE Err("join", NoName, Len(nonnil), "")

\* A nil fs.FS.
NilFS == [nil |-> TRUE, readable |-> FALSE, entries |-> <<>>]

\* A filesystem whose directory cannot be read.
UnreadableFS == [nil |-> FALSE, readable |-> FALSE, entries |-> <<>>]

\* A filesystem with the given directory entries, in the order fs.ReadDir
\* lists them.
Dir(entries) == [nil |-> FALSE, readable |-> TRUE, entries |-> entries]

----------------------------------------------------------------------------
(* The version index: loadVersions *)

\* A file of the script source.
Script(fname) == [name |-> fname, isDir |-> FALSE]

\* A sub-directory of the script source.
SubDir(fname) == [name |-> fname, isDir |-> TRUE]

\* The directory of the scripts that upgrade to the versions in U and
\* downgrade from the versions in D, from version v on, sorted by filename:
\* "1.down.sql", "1.up.sql", "2.down.sql", ..
RECURSIVE Listing(_, _, _)
Listing(U, D, v) ==
    IF v > MaxV THEN <<>>
    ELSE (IF v \in D THEN <<Script(DownFile(v))>> ELSE <<>>)
         \o (IF v \in U THEN <<Script(UpFile(v))>> ELSE <<>>)
         \o Listing(U, D, v + 1)

\* A variant of Put that keeps the value a key already has.
PutKeepsFirst(m, k, v) ==
    [x \in DOMAIN m \cup {k} |-> IF x \in DOMAIN m THEN m[x] ELSE v]

\* db.upgrades[vnum] = entry.Name()
Put(m, k, v) == [x \in DOMAIN m \cup {k} |-> IF x = k THEN v ELSE m[x]]

\* A variant of IndexEntry that indexes the files of version 0 too.
IndexEntryFromZero(idx, entry) ==
    IF entry.isDir THEN idx
    ELSE LET vnum == Atoi(FindString(entry.name))
         IN  IF vnum >= 0
             THEN IF MatchString(RxUpgrade, entry.name)
                  THEN [idx EXCEPT !.upgrades = Put(@, vnum, entry.name)]
                  ELSE IF MatchString(RxDowngrade, entry.name)
                  THEN [idx EXCEPT
                          !.downgrades = Put(@, vnum, entry.name)]
                  ELSE idx
             ELSE idx

\* The body of loadVersions' loop for one entry.
IndexEntry(idx, entry) ==
    IF entry.isDir THEN idx
    ELSE LET vnum == Atoi(FindString(entry.name))
         IN  IF vnum > 0
             THEN IF MatchString(RxUpgrade, entry.name)
                  THEN [idx EXCEPT !.upgrades = Put(@, vnum, entry.name)]
                  ELSE IF MatchString(RxDowngrade, entry.name)
                  THEN [idx EXCEPT
                          !.downgrades = Put(@, vnum, entry.name)]
                  ELSE idx
             ELSE idx

RECURSIVE IndexEntries(_, _, _)
IndexEntries(idx, entries, i) ==
    IF i > Len(entries) THEN idx
    ELSE IndexEntries(IndexEntry(idx, entries[i]), entries, i + 1)

\* loadVersions: the index built from the script source, and its errors.
LoadVersions(fs) ==
    LET empty == [upgrades |-> <<>>, downgrades |-> <<>>, errs |-> <<>>]
    IN  IF ~fs.readable
        THEN [empty EXCEPT !.errs = <<Err("readdir", NoName, 0, "")>>]
        ELSE IndexEntries(empty, fs.entries, 1)

----------------------------------------------------------------------------
(* The query source *)

\* The longest statement file, in lines.
MaxLines == 4

\* The most statements the connection prepares in a run.
MaxStmts == 4

\* name + ".sql"
SqlName(name) == [base |-> name, ext |-> ".sql"]

\* A filename that does not end in ".sql".
TxtName(name) == [base |-> name, ext |-> ".txt"]

\* strings.HasSuffix(entry.Name(), ".sql")
HasSqlSuffix(fname) == fname.ext = ".sql"

\* strings.TrimSuffix(entry.Name(), ".sql")
TrimSqlSuffix(fname) == fname.base

\* The lines of a statement file. A line is blank (empty or white space
\* only), a name marker "-- name: sub", another comment "-- ..", or a line
\* of SQL text; pad says that white space surrounds it.
Blank == [kind |-> "blank", sub |-> "", sql |-> "", pad |-> FALSE]
Marker(sub) == [kind |-> "marker", sub |-> sub, sql |-> "", pad |-> FALSE]
Comment == [kind |-> "comment", sub |-> "", sql |-> "", pad |-> FALSE]
Sql(text) == [kind |-> "sql", sub |-> "", sql |-> text, pad |-> FALSE]
Padded(line) == [line EXCEPT !.pad = TRUE]

\* SQL text that the database refuses to prepare.
BadSql == "syntax error"

\* strings.TrimSpace(s.Text())
TrimSpace(line) == [line EXCEPT !.pad = FALSE]

\* len(line) == 0, of a trimmed line
IsEmpty(line) == line.kind = "blank"

\* rxNameline.MatchString(line): (?i)^--\s*name:\s*(\S+)
IsNameline(line) == line.kind = "marker"

\* A variant of IsComment that knows the name markers only.
IsCommentMarkerOnly(line) == line.kind = "marker"

\* rxComment.MatchString(line): ^--
IsComment(line) == line.kind \in {"marker", "comment"}

\* rxNameline.FindStringSubmatch(line)[1]
Submatch(line) == line.sub

\* A statement file and a sub-directory of the query source.
QueryFile(fname, content) ==
    [name |-> fname, isDir |-> FALSE, content |-> content]
QueryDir(fname) == [name |-> fname, isDir |-> TRUE, content |-> <<>>]

\* The query source has an entry of that name.
HasEntry(fs, fname) == \E i \in DOMAIN fs.entries : fs.entries[i].name = fname

EntryOf(fs, fname) ==
    fs.entries[CHOOSE i \in DOMAIN fs.entries : fs.entries[i].name = fname]

----------------------------------------------------------------------------
(* Compiled statements *)

\* The *Tx objects a run begins, and the mark of a statement that belongs
\* to the connection and not to a transaction.
TxIds == {"t1", "t2"}
NoTxId == "db"

\* A nil *sql.Stmt.
NilStmt == [id |-> 0, text |-> <<>>, tx |-> NoTxId, of |-> 0]

\* The n-th *sql.Stmt that db.DB.Prepare made, compiled from text.
Stmt(n, text) == [id |-> n, text |-> text, tx |-> NoTxId, of |-> 0]

\* db.DB.Prepare(text) returns an error: some line of the text is not SQL
\* the database accepts.
PrepareFails(text) == \E i \in DOMAIN text : text[i].sql = BadSql

\* The state a loader works on: the cache and the count of statements made.
Loader(cache, n) == [statements |-> cache, prepared |-> n, err |-> NilErr]

\* What a loader hands back: the cache, the count of statements made and
\* its error.
Loaded(cache, n, err) == [statements |-> cache, prepared |-> n, err |-> err]

\* A read of a Go map: the zero value (a nil *sql.Stmt) for a missing key.
Lookup(cache, name) ==
    IF name \in DOMAIN cache THEN cache[name] ELSE NilStmt

----------------------------------------------------------------------------
(* The statement compiler of src/liteflow.go: one statement per file *)

\* loadStatement: read name.sql whole and prepare it as one statement.
LoadStatement(fs, L, name) ==
    IF fs.nil
    THEN [L EXCEPT !.err = Err("noqueryfs", NoName, 0, name)]
    ELSE IF ~HasEntry(fs, SqlName(name))
    THEN [L EXCEPT !.err = Err("read", SqlName(name), 0, name)]
    ELSE LET entry == EntryOf(fs, SqlName(name))
         IN  IF entry.isDir
             THEN [L EXCEPT !.err = Err("read", SqlName(name), 0, name)]
             ELSE IF PrepareFails(entry.content)
             THEN [L EXCEPT !.err = Err("prepare", SqlName(name), 0, name)]
             ELSE Loaded(Put(L.statements, name,
                             Stmt(L.prepared + 1, entry.content)),
                         L.prepared + 1, NilErr)

\* A variant of LoadEntry that loads nothing.
LoadEntryNone(fs, A, entry) == A

\* The body of loadStatements' loop for one entry; A holds the cache, the
\* count of statements made and the errors collected so far.
LoadEntry(fs, A, entry) ==
    IF entry.isDir THEN A
    ELSE IF ~HasSqlSuffix(entry.name) THEN A
    ELSE LET r == LoadStatement(fs, Loader(A.statements, A.prepared),
                                TrimSqlSuffix(entry.name))
         IN  [statements |-> r.statements,
              prepared |-> r.prepared,
              errs |-> IF r.err.kind # NoError
                       THEN Append(A.errs, r.err) ELSE A.errs]

RECURSIVE LoadEntries(_, _, _)
LoadEntries(fs, A, i) ==
    IF i > Len(fs.entries) THEN A
    ELSE LoadEntries(fs, LoadEntry(fs, A, fs.entries[i]), i + 1)

\* loadStatements: prepare every statement file of the query source.
LoadStatements(fs, cache, n) ==
    IF ~fs.readable
    THEN [statements |-> cache, prepared |-> n,
          errs |-> <<Err("readdir", NoName, 0, "")>>]
    ELSE LoadEntries(fs, [statements |-> cache, prepared |-> n,
                          errs |-> <<>>], 1)

\* DB.named: the cached statement, or on a miss the statement that
\* loadStatement puts in the cache.
DBNamed(fs, cache, n, name) ==
    IF name \in DOMAIN cache
    THEN [statements |-> cache, prepared |-> n, stmt |-> cache[name],
          err |-> NilErr]
    ELSE LET r == LoadStatement(fs, Loader(cache, n), name)
         IN  IF r.err.kind # NoError
             THEN [statements |-> r.statements, prepared |-> r.prepared,
                   stmt |-> NilStmt, err |-> Wrap(name, r.err)]
             ELSE [statements |-> r.statements, prepared |-> r.prepared,
                   stmt |-> Lookup(r.statements, name), err |-> NilErr]

----------------------------------------------------------------------------
(* The statement compiler of src/unnamed/part_002: a file holds several   *)
(* statements, each after a "-- name: sub" line                           *)

\* A variant of QueryName that leaves the sub-name out.
QueryNameFlat(name, subname) == name

\* queryName := name; if subname != "" { queryName += "." + subname }
QueryName(name, subname) ==
    IF subname # "" THEN name \o "." \o subname ELSE name

\* The scanner's state at the top of a file.
ScanStart(L) ==
    [statements |-> L.statements, prepared |-> L.prepared, err |-> NilErr,
     subname |-> "", lines |-> <<>>, lno |-> 0]

\* A variant of PrepareLines that prepares an empty buffer too.
PrepareLinesAlways(S, name) ==
    IF PrepareFails(S.lines)
    THEN [S EXCEPT !.err = Err("prepare", SqlName(name), S.lno,
                               QueryName(name, S.subname))]
    ELSE [S EXCEPT
            !.statements = Put(@, QueryName(name, S.subname),
                               Stmt(S.prepared + 1, S.lines)),
            !.prepared = @ + 1]

\* if len(lines) > 0 { joined := strings.Join(lines, "\n"); .. Prepare ..;
\* db.statements[queryName] = s }. The joined text is kept as its lines.
PrepareLines(S, name) ==
    IF Len(S.lines) = 0 THEN S
    ELSE IF PrepareFails(S.lines)
    THEN [S EXCEPT !.err = Err("prepare", SqlName(name), S.lno,
                               QueryName(name, S.subname))]
    ELSE [S EXCEPT
            !.statements = Put(@, QueryName(name, S.subname),
                               Stmt(S.prepared + 1, S.lines)),
            !.prepared = @ + 1]

\* The body of the scanner loop for one line of the file.
ScanLine(S, name, text) ==
    LET line == TrimSpace(text)
    IN  IF IsEmpty(line) THEN S
        ELSE LET S1 == [S EXCEPT !.lno = @ + 1]
             IN  IF IsNameline(line)
                 THEN LET S2 == PrepareLines(S1, name)
                      IN  IF S2.err.kind # NoError THEN S2
                          ELSE [S2 EXCEPT !.subname = Submatch(line),
                                          !.lines = <<>>]
                 ELSE IF ~IsComment(line)
                 THEN [S1 EXCEPT !.lines = Append(@, line)]
                 ELSE S1

\* for s.Scan() { .. }, left at the first error.
RECURSIVE ScanLines(_, _, _, _)
ScanLines(S, name, content, i) ==
    IF i > Len(content) \/ S.err.kind # NoError THEN S
    ELSE ScanLines(ScanLine(S, name, content[i]), name, content, i + 1)

\* A variant of ScanStatements that keeps none of the statements of a file
\* in which one fails to compile.
ScanStatementsAllOrNothing(fs, L, name) ==
    IF fs.nil
    THEN [L EXCEPT !.err = Err("noqueryfs", NoName, 0, name)]
    ELSE IF ~HasEntry(fs, SqlName(name))
    THEN [L EXCEPT !.err = Err("open", SqlName(name), 0, name)]
    ELSE LET entry == EntryOf(fs, SqlName(name))
             S == ScanLines(ScanStart(L), name, entry.content, 1)
             F == PrepareLines(S, name)
         IN  IF entry.isDir
             THEN [L EXCEPT !.err = Err("scan", SqlName(name), 0, name)]
             ELSE IF S.err.kind # NoError
             THEN Loaded(L.statements, L.prepared, S.err)
             ELSE IF F.err.kind # NoError
             THEN Loaded(L.statements, L.prepared, F.err)
             ELSE Loaded(F.statements, F.prepared, F.err)

\* loadStatements(name) of part_002: scan name.sql and prepare each of its
\* statements.
ScanStatements(fs, L, name) ==
    IF fs.nil
    THEN [L EXCEPT !.err = Err("noqueryfs", NoName, 0, name)]
    ELSE IF ~HasEntry(fs, SqlName(name))
    THEN [L EXCEPT !.err = Err("open", SqlName(name), 0, name)]
    ELSE LET entry == EntryOf(fs, SqlName(name))
             S == ScanLines(ScanStart(L), name, entry.content, 1)
             F == PrepareLines(S, name)
         IN  IF entry.isDir
             THEN [L EXCEPT !.err = Err("scan", SqlName(name), 0, name)]
             ELSE IF S.err.kind # NoError
             THEN Loaded(S.statements, S.prepared, S.err)
             ELSE Loaded(F.statements, F.prepared, F.err)

\* A variant of ScanEntry that loads nothing more after a file has failed.
ScanEntryStops(fs, A, entry) ==
    IF entry.isDir \/ ~HasSqlSuffix(entry.name) \/ A.errs # <<>> THEN A
    ELSE LET r == ScanStatements(fs, Loader(A.statements, A.prepared),
                                 TrimSqlSuffix(entry.name))
         IN  [statements |-> r.statements,
              prepared |-> r.prepared,
              errs |-> IF r.err.kind # NoError
                       THEN Append(A.errs, r.err) ELSE A.errs]

\* The body of loadAllStatements' loop for one entry.
ScanEntry(fs, A, entry) ==
    IF entry.isDir THEN A
    ELSE IF ~HasSqlSuffix(entry.name) THEN A
    ELSE LET r == ScanStatements(fs, Loader(A.statements, A.prepared),
                                 TrimSqlSuffix(entry.name))
         IN  [statements |-> r.statements,
              prepared |-> r.prepared,
              errs |-> IF r.err.kind # NoError
                       THEN Append(A.errs, r.err) ELSE A.errs]

RECURSIVE ScanEntries(_, _, _)
ScanEntries(fs, A, i) ==
    IF i > Len(fs.entries) THEN A
    ELSE ScanEntries(fs, ScanEntry(fs, A, fs.entries[i]), i + 1)

\* loadAllStatements: scan every statement file of the query source.
LoadAllStatements(fs, cache, n) ==
    IF ~fs.readable
    THEN [statements |-> cache, prepared |-> n,
          errs |-> <<Err("readdir", NoName, 0, "")>>]
    ELSE ScanEntries(fs, [statements |-> cache, prepared |-> n,
                          errs |-> <<>>], 1)

\* DB.named of part_002: the cached statement, or on a miss whatever the
\* cache holds under the name after loadStatements(name).
DBNamedScan(fs, cache, n, name) ==
    IF name \in DOMAIN cache
    THEN [statements |-> cache, prepared |-> n, stmt |-> cache[name],
          err |-> NilErr]
    ELSE LET r == ScanStatements(fs, Loader(cache, n), name)
         IN  IF r.err.kind # NoError
             THEN [statements |-> r.statements, prepared |-> r.prepared,
                   stmt |-> NilStmt, err |-> Wrap(name, r.err)]
             ELSE [statements |-> r.statements, prepared |-> r.prepared,
                   stmt |-> Lookup(r.statements, name), err |-> NilErr]

----------------------------------------------------------------------------
(* Initial states *)

\* No caller is in a call of Upgrade or Downgrade.
Idle ==
    /\ writer = NoWriter
    /\ tx = [c \in Callers |-> NoTx]
    /\ pc = [c \in Callers |-> "idle"]
    /\ op = [c \in Callers |-> "none"]
    /\ target = [c \in Callers |-> 0]
    /\ vCurr = [c \in Callers |-> 0]
    /\ file = [c \in Callers |-> NoFile]
    /\ newver = [c \in Callers |-> 0]
    /\ ret = [c \in Callers |-> [v |-> 0, err |-> NoError]]
    /\ start = [c \in Callers |-> 0]
    /\ ran = [c \in Callers |-> <<>>]
    /\ fault = [c \in Callers |-> "none"]
    /\ trip = [c \in Callers |-> 0]

\* The options of a call of New.
Options(maxVersion, noPreload, vfs, qfs) ==
    [MaxVersion |-> maxVersion, NoPreload |-> noPreload,
     VersionFS |-> vfs, QueryFS |-> qfs]

\* var defaultOptions = Options{}
DefaultOptions == Options(0, FALSE, NilFS, NilFS)

\* New has not been called.
NotMade ==
    [phase |-> "none", d |-> "nil", opts |-> DefaultOptions, errs |-> <<>>,
     err |-> NilErr]

\* New(db, opts) has returned a DB and no error.
Made(opts) ==
    [phase |-> "returned", d |-> "db", opts |-> opts, errs |-> <<>>,
     err |-> NilErr]

\* No named operation was called.
NoRes ==
    [op |-> "none", tx |-> NoTxId, name |-> "", stmt |-> NilStmt,
     err |-> NilErr, out |-> "none", ended |-> FALSE]

\* No transaction was begun.
NoTxs ==
    [t \in TxIds |-> [state |-> "none", statements |-> <<>>, mark |-> 0]]

\* Nothing was resolved, and no statement prepared.
Unused ==
    /\ statements = <<>>
    /\ prepared = 0
    /\ txs = NoTxs
    /\ bindings = 0
    /\ res = NoRes

\* The DB that New built with a script source, no query source and
\* MaxVersion = UpgradeNone: the index loadVersions builds holds filenames
\* under versions > 0; the database is fresh or was migrated to some
\* version by an earlier run.
Init ==
    /\ \E U \in SUBSET Versions, D \in SUBSET Versions :
         versionFS = Dir(Listing(U, D, 1))
    /\ upgrades = LoadVersions(versionFS).upgrades
    /\ downgrades = LoadVersions(versionFS).downgrades
    /\ \E n \in 0 .. MaxV : db = DBAt(n)
    /\ Idle
    /\ queryFS = NilFS
    /\ Unused
    /\ made = Made(Options(UpgradeNone, FALSE, versionFS, NilFS))

----------------------------------------------------------------------------
(* Actions *)

\* return v, e from Upgrade / Downgrade
Return(c, v, e) ==
    /\ pc' = [pc EXCEPT ![c] = "done"]
    /\ ret' = [ret EXCEPT ![c] = [v |-> v, err |-> e]]

\* Entering Upgrade / Downgrade: the locals are zero values.
Enter(c, o, t) ==
    /\ pc' = [pc EXCEPT ![c] = "loop"]
    /\ op' = [op EXCEPT ![c] = o]
    /\ target' = [target EXCEPT ![c] = t]
    /\ vCurr' = [vCurr EXCEPT ![c] = 0]
    /\ file' = [file EXCEPT ![c] = NoFile]
    /\ newver' = [newver EXCEPT ![c] = 0]
    /\ start' = [start EXCEPT ![c] = db.version]
    /\ ran' = [ran EXCEPT ![c] = <<>>]
    /\ fault' = [fault EXCEPT ![c] = "none"]
    /\ trip' = [trip EXCEPT ![c] =
                  IF /\ pc[c] = "done"
                     /\ op[c] = "up"
                     /\ target[c] > 0
                     /\ start[c] = 0
                     /\ fault[c] = "none"
                  THEN target[c] ELSE 0]

\* A caller that is in no call calls db.Upgrade(t).
CallUpgrade(c) ==
    /\ pc[c] \in {"idle", "done"}
    /\ \E t \in Targets : Enter(c, "up", t)
    /\ UNCHANGED <<index, sources, named, made, conn, ret>>

\* A caller that is in no call calls db.Downgrade(t).
CallDowngrade(c) ==
    /\ pc[c] \in {"idle", "done"}
    /\ \E t \in Targets : Enter(c, "down", t)
    /\ UNCHANGED <<index, sources, named, made, conn, ret>>

\* A variant of UpgradeLoop that, when the version cannot be read, returns
\* the version the call read in its iteration before.
UpgradeLoopKeepsVersion(c) ==
    /\ pc[c] = "loop"
    /\ op[c] = "up"
    /\ \E r \in {"ok", "version"} :
        IF r = "version"
        THEN /\ vCurr' = vCurr
             /\ fault' = [fault EXCEPT ![c] = r]
             /\ Return(c, vCurr[c], r)
             /\ UNCHANGED <<file, newver>>
        ELSE /\ vCurr' = [vCurr EXCEPT ![c] = db.version]
             /\ fault' = fault
             /\ IF \/ UpgradeReached(target[c], db.version)
                   \/ NextVersion(db.version) \notin DOMAIN upgrades
                THEN /\ Return(c, db.version, NoError)
                     /\ UNCHANGED <<file, newver>>
                ELSE /\ file' = [file EXCEPT
                                   ![c] = upgrades[NextVersion(db.version)]]
                     /\ newver' = [newver EXCEPT
                                     ![c] = NextVersion(db.version)]
                     /\ pc' = [pc EXCEPT ![c] = "open"]
                     /\ ret' = ret
    /\ UNCHANGED <<index, sources, named, made>>
    /\ UNCHANGED <<conn, trip, op, target, start, ran>>

\* The head of Upgrade's loop: read the stored version, stop at the target
\* or where the index has no next script, else start the next step.
UpgradeLoop(c) ==
    /\ pc[c] = "loop"
    /\ op[c] = "up"
    /\ \E r \in {"ok", "version"} :
        IF r = "version"
        THEN \* Version() fails: its vCurr is still the zero value
             /\ vCurr' = [vCurr EXCEPT ![c] = 0]
             /\ fault' = [fault EXCEPT ![c] = r]
             /\ Return(c, 0, r)
             /\ UNCHANGED <<file, newver>>
        ELSE /\ vCurr' = [vCurr EXCEPT ![c] = db.version]
             /\ fault' = fault
             /\ IF \/ UpgradeReached(target[c], db.version)
                   \/ NextVersion(db.version) \notin DOMAIN upgrades
                THEN /\ Return(c, db.version, NoError)
                     /\ UNCHANGED <<file, newver>>
                ELSE /\ file' = [file EXCEPT
                                   ![c] = upgrades[NextVersion(db.version)]]
                     /\ newver' = [newver EXCEPT
                                     ![c] = NextVersion(db.version)]
                     /\ pc' = [pc EXCEPT ![c] = "open"]
                     /\ ret' = ret
    /\ UNCHANGED <<index, sources, named, made>>
    /\ UNCHANGED <<conn, trip, op, target, start, ran>>

\* The head of Downgrade's loop.
DowngradeLoop(c) ==
    /\ pc[c] = "loop"
    /\ op[c] = "down"
    /\ \E r \in {"ok", "version"} :
        IF r = "version"
        THEN /\ vCurr' = [vCurr EXCEPT ![c] = 0]
             /\ fault' = [fault EXCEPT ![c] = r]
             /\ Return(c, 0, r)
             /\ UNCHANGED <<file, newver>>
        ELSE /\ vCurr' = [vCurr EXCEPT ![c] = db.version]
             /\ fault' = fault
             /\ IF \/ DowngradeReached(target[c], db.version)
                   \/ DowngradeKey(db.version) \notin DOMAIN downgrades
                THEN /\ Return(c, db.version, NoError)
                     /\ UNCHANGED <<file, newver>>
                ELSE /\ file' = [file EXCEPT
                                   ![c] = downgrades[DowngradeKey(db.version)]]
                     /\ newver' = [newver EXCEPT
                                     ![c] = PrevVersion(db.version)]
                     /\ pc' = [pc EXCEPT ![c] = "open"]
                     /\ ret' = ret
    /\ UNCHANGED <<index, sources, named, made>>
    /\ UNCHANGED <<conn, trip, op, target, start, ran>>

\* A variant of StepFails that notes the error and goes round the loop.
StepFailsGoesOn(c, e) ==
    /\ fault' = [fault EXCEPT ![c] = e]
    /\ pc' = [pc EXCEPT ![c] = "loop"]
    /\ ret' = ret

\* runFileAndSetVersion fails with e: Upgrade / Downgrade return vCurr and
\* the error, or no error when the script file does not exist.
StepFails(c, e) ==
    /\ fault' = [fault EXCEPT ![c] = e]
    /\ Return(c, vCurr[c], StepError(e))

\* runFileAndSetVersion: db.versionFS.Open(filename); io.ReadAll(f)
OpenScript(c) ==
    /\ pc[c] = "open"
    /\ \E r \in {"ok", "notexist", "open", "read"} :
        IF r = "ok"
        THEN /\ pc' = [pc EXCEPT ![c] = "begin"]
             /\ UNCHANGED <<ret, fault>>
        ELSE StepFails(c, r)
    /\ UNCHANGED <<index, sources, named, made>>
    /\ UNCHANGED <<conn, trip, op, target, vCurr, file, newver, start,
                   ran>>

\* runFileAndSetVersion: tx, err := db.DB.Begin()
BeginStep(c) ==
    /\ pc[c] = "begin"
    /\ \E r \in {"ok", "begin"} :
        IF r = "ok"
        THEN /\ tx' = [tx EXCEPT ![c] = [NoTx EXCEPT !.open = TRUE]]
             /\ pc' = [pc EXCEPT ![c] = "exec"]
             /\ UNCHANGED <<ret, fault>>
        ELSE /\ tx' = tx
             /\ StepFails(c, r)
    /\ UNCHANGED <<index, sources, named, made>>
    /\ UNCHANGED <<db, writer, trip, op, target, vCurr, file, newver,
                   start, ran>>

\* runFileAndSetVersion: tx.Exec(string(content)), and tx.Rollback() on error.
\* The first write of a transaction takes the database's write lock.
ExecScript(c) ==
    /\ pc[c] = "exec"
    /\ tx[c].open
    /\ writer \in {NoWriter, c}
    /\ \E r \in {"ok", "exec"} :
        IF r = "ok"
        THEN /\ tx' = [tx EXCEPT ![c] = [open |-> TRUE, wrote |-> TRUE,
                                         work |-> RunScript(db, file[c])]]
             /\ writer' = c
             /\ db' = db
             /\ pc' = [pc EXCEPT ![c] = "pragma"]
             /\ UNCHANGED <<ret, fault>>
        ELSE /\ db' = Rollback(db, RunPartOfScript(db, file[c]))
             /\ tx' = [tx EXCEPT ![c] = NoTx]
             /\ writer' = NoWriter
             /\ StepFails(c, r)
    /\ UNCHANGED <<index, sources, named, made>>
    /\ UNCHANGED <<trip, op, target, vCurr, file, newver, start,
                   ran>>

\* runFileAndSetVersion: tx.Exec("PRAGMA user_version = %d"), and
\* tx.Rollback() on error.
ExecPragma(c) ==
    /\ pc[c] = "pragma"
    /\ tx[c].open
    /\ \E r \in {"ok", "pragma"} :
        IF r = "ok"
        THEN /\ tx' = [tx EXCEPT
                         ![c].work = SetVersion(tx[c].work, newver[c])]
             /\ UNCHANGED <<db, writer>>
             /\ pc' = [pc EXCEPT ![c] = "commit"]
             /\ UNCHANGED <<ret, fault>>
        ELSE /\ db' = Rollback(db, tx[c].work)
             /\ tx' = [tx EXCEPT ![c] = NoTx]
             /\ writer' = NoWriter
             /\ StepFails(c, r)
    /\ UNCHANGED <<index, sources, named, made>>
    /\ UNCHANGED <<trip, op, target, vCurr, file, newver, start,
                   ran>>

\* runFileAndSetVersion: tx.Commit(). A commit that fails commits nothing.
\* On success runFileAndSetVersion returns nil and the loop goes round.
CommitStep(c) ==
    /\ pc[c] = "commit"
    /\ tx[c].open
    /\ \E r \in {"ok", "commit"} :
        IF r = "ok"
        THEN /\ db' = Commit(db, tx[c].work)
             /\ ran' = [ran EXCEPT ![c] = Append(@, file[c])]
             /\ pc' = [pc EXCEPT ![c] = "loop"]
             /\ UNCHANGED <<ret, fault>>
        ELSE /\ db' = Rollback(db, tx[c].work)
             /\ ran' = ran
             /\ StepFails(c, r)
    /\ tx' = [tx EXCEPT ![c] = NoTx]
    /\ writer' = NoWriter
    /\ UNCHANGED <<index, sources, named, made>>
    /\ UNCHANGED <<trip, op, target, vCurr, file, newver, start>>

\* One caller using the DB.
Next ==
    \/ CallUpgrade(Main)
    \/ CallDowngrade(Main)
    \/ UpgradeLoop(Main)
    \/ DowngradeLoop(Main)
    \/ OpenScript(Main)
    \/ BeginStep(Main)
    \/ ExecScript(Main)
    \/ ExecPragma(Main)
    \/ CommitStep(Main)

Spec == Init /\ [][Next]_vars

----------------------------------------------------------------------------
(* Claims about the migration engine, for the caller Main *)

Done == pc[Main] = "done"

\* The call met no failure of the connection or of the script source.
Clean == fault[Main] = "none"

\* The failures of a step inside runFileAndSetVersion, the absent script
\* file ("notexist") aside.
StepFaults == {"open", "read", "begin", "exec", "pragma", "commit"}

\* The upgrade steps in effect in database d.
InEffect(d) == {v \in Versions : d.applied[v] > 0}

\* The version a call has reached by the steps it committed.
Reached == IF op[Main] = "up" THEN start[Main] + Len(ran[Main])
           ELSE start[Main] - Len(ran[Main])

\* The upgrade scripts of versions a+1 .. b, in increasing order.
UpRun(a, b) == [i \in 1 .. (b - a) |-> UpFile(a + i)]

\* The downgrade scripts of versions a, a-1, .. b+1, in decreasing order.
DownRun(a, b) == [i \in 1 .. (a - b) |-> DownFile(a + 1 - i)]

\* The first version above s with no indexed upgrade script.
FirstGap(s) ==
    CHOOSE g \in (s + 1) .. (MaxV + 1) :
        /\ g \notin DOMAIN upgrades
        /\ \A h \in (s + 1) .. (g - 1) : h \in DOMAIN upgrades

\* C1: with upgrade scripts indexed for exactly the versions 1..K and no
\* failure, Upgrade(0) on a database at version 0 returns (K, nil), leaves
\* the stored version at K and has run the scripts 1, 2, .., K once each, in
\* that order.
C1_UpgradeAllReachesK ==
    \A K \in 0 .. MaxV :
        ( /\ Done
          /\ op[Main] = "up"
          /\ target[Main] = UpgradeAll
          /\ start[Main] = 0
          /\ Clean
          /\ DOMAIN upgrades = 1 .. K )
        => /\ ret[Main] = [v |-> K, err |-> NoError]
           /\ db.version = K
           /\ ran[Main] = UpRun(0, K)
           /\ \A v \in Versions : db.applied[v] = IF v <= K THEN 1 ELSE 0

C1_Witness ==
    /\ Done
    /\ op[Main] = "up"
    /\ target[Main] = UpgradeAll
    /\ start[Main] = 0
    /\ Clean
    /\ DOMAIN upgrades = 1 .. MaxV
    /\ Len(ran[Main]) = MaxV
    /\ ret[Main].v = MaxV

\* C2 (state part): when the script of the upgrade step to version M fails
\* to execute, or the version update of that step fails, the call has
\* returned (M-1, error), the stored version is M-1, the database holds
\* exactly the upgrades 1..M-1 with nothing of script M in it, whole or in
\* part, and the transaction is closed.
C2_FailedStepRolledBack ==
    ( /\ Done
      /\ op[Main] = "up"
      /\ fault[Main] \in {"exec", "pragma"} )
    => /\ ret[Main] = [v |-> newver[Main] - 1, err |-> fault[Main]]
       /\ db = DBAt(newver[Main] - 1)
       /\ file[Main] = UpFile(newver[Main])
       /\ ~tx[Main].open
       /\ writer = NoWriter

\* C2 (retry part): a call of Upgrade that allows version s+1, starts at
\* version s with script s+1 indexed and meets no failure applies script
\* s+1 first.
C2_CleanUpgradeApplies ==
    ( /\ Done
      /\ op[Main] = "up"
      /\ Clean
      /\ target[Main] <= 0 \/ target[Main] > start[Main]
      /\ start[Main] + 1 \in DOMAIN upgrades )
    => /\ Len(ran[Main]) >= 1
       /\ ran[Main][1] = UpFile(start[Main] + 1)
       /\ db.applied[start[Main] + 1] = 1
       /\ db.version >= start[Main] + 1

\* C2 (link): the next call made after the failed step to M starts from the
\* stored version M-1.
C2_RetryStartsAtFailedStep ==
    ( /\ Done
      /\ op[Main] = "up"
      /\ fault[Main] \in {"exec", "pragma"}
      /\ pc'[Main] = "loop" )
    => start'[Main] = newver[Main] - 1

\* C2: a migration step is atomic. A failed script or version update rolls
\* the step back, Upgrade returns (M-1, error), and a later Upgrade that
\* meets no failure resumes from M-1 and applies M.
C2_StepAtomic ==
    /\ [](C2_FailedStepRolledBack /\ C2_CleanUpgradeApplies)
    /\ [][C2_RetryStartsAtFailedStep]_vars

\* Step 2 of an Upgrade call fails after step 1 was committed.
C2_Witness ==
    /\ Done
    /\ op[Main] = "up"
    /\ fault[Main] = "pragma"
    /\ newver[Main] = 2
    /\ Len(ran[Main]) = 1
    /\ db.version = 1

\* C3 (state part): a call that returned because a step failed returned
\* the version reached by the steps committed before it together with the
\* step's error; those steps, and only those, are applied in the database.
C3_FailedCallKeepsCommittedSteps ==
    ( Done /\ fault[Main] \in StepFaults )
    => /\ ret[Main] = [v |-> Reached, err |-> fault[Main]]
       /\ db = DBAt(Reached)
       /\ ran[Main] = IF op[Main] = "up" THEN UpRun(start[Main], Reached)
                      ELSE DownRun(start[Main], Reached)
       /\ ~tx[Main].open

\* C3 (step part): the step in which a failure is raised is the step in
\* which the call returns, and it leaves the database and the list of
\* committed scripts as they were.
C3_ReturnsAtOnce ==
    ( fault[Main] = "none" /\ fault'[Main] \in StepFaults )
    => /\ pc'[Main] = "done"
       /\ ran'[Main] = ran[Main]
       /\ db' = db

\* C3 (step part): after the failed call has returned nothing changes the
\* database until a new call is made.
C3_NoLaterStep ==
    ( Done /\ fault[Main] \in StepFaults )
    => /\ db' = db
       /\ pc'[Main] \in {"done", "loop"}

\* C3: Upgrade and Downgrade are fail-fast without unwinding.
C3_FailFast ==
    /\ []C3_FailedCallKeepsCommittedSteps
    /\ [][C3_ReturnsAtOnce /\ C3_NoLaterStep]_vars

\* A Downgrade call whose third step fails after two committed steps.
C3_Witness ==
    /\ Done
    /\ op[Main] = "down"
    /\ fault[Main] = "exec"
    /\ Len(ran[Main]) = 2
    /\ start[Main] = 3
    /\ db.version = 1

\* C4: Upgrade stops cleanly at the first gap of the upgrade index. A call
\* that met no failure returned no error and a version below the first
\* version above its start that has no script; with no ceiling below the gap
\* it returned exactly the version before the gap; from a version whose
\* successor has no script it returned that version and ran nothing. No
\* script at or above the gap was run, whatever scripts are indexed there.
C4_StopsAtGap ==
    ( Done /\ op[Main] = "up" /\ Clean )
    => LET g == FirstGap(start[Main]) IN
       /\ ret[Main].err = NoError
       /\ ret[Main].v = db.version
       /\ ret[Main].v < g
       /\ (target[Main] <= 0 \/ target[Main] >= g) => ret[Main].v = g - 1
       /\ g = start[Main] + 1 =>
            /\ ret[Main].v = start[Main]
            /\ ran[Main] = <<>>
            /\ db = DBAt(start[Main])
       /\ \A i \in 1 .. Len(ran[Main]) : VersionOf(ran[Main][i]) < g
       /\ \A v \in Versions : v >= g => db.applied[v] = 0

\* Scripts 1 and 3 are indexed and 2 is not: Upgrade(0) from 0 returns 1.
C4_Witness ==
    /\ Done
    /\ op[Main] = "up"
    /\ Clean
    /\ target[Main] = UpgradeAll
    /\ start[Main] = 0
    /\ DOMAIN upgrades = {1, 3}
    /\ ret[Main] = [v |-> 1, err |-> NoError]
    /\ ran[Main] = <<UpFile(1)>>

\* The call is Upgrade(N) with N > 0 or Downgrade(N), made at version N.
AtTarget ==
    /\ op[Main] = "down" \/ (op[Main] = "up" /\ target[Main] > 0)
    /\ start[Main] = target[Main]

\* C5: Upgrade(N) with N > 0 and Downgrade(N) on a database at version N
\* never leave the head of the loop: they run no script, leave the database
\* as it was and, the version read succeeding, return (N, nil). As the
\* stored version is still N, a repeated call is in the same case.
C5_Idempotent ==
    AtTarget
    => /\ pc[Main] \in {"loop", "done"}
       /\ ran[Main] = <<>>
       /\ db = DBAt(target[Main])
       /\ ~tx[Main].open
       /\ (Done /\ Clean) => ret[Main] = [v |-> target[Main], err |-> NoError]

\* Upgrade(2) has returned on a database that was at version 2, with the
\* script of version 3 indexed.
C5_Witness ==
    /\ Done
    /\ Clean
    /\ op[Main] = "up"
    /\ target[Main] = 2
    /\ start[Main] = 2
    /\ 3 \in DOMAIN upgrades
    /\ ret[Main].v = 2
    /\ db.version = 2

\* C6 as first stated: Upgrade(N) with N > 0 runs no upgrade script for a
\* version above N and returns, when it returns no error, a version that is
\* at most N.
C6_AsStated ==
    ( Done /\ op[Main] = "up" /\ target[Main] > 0 )
    => /\ \A i \in 1 .. Len(ran[Main]) : VersionOf(ran[Main][i]) <= target[Main]
       /\ ret[Main].err = NoError => ret[Main].v <= target[Main]

\* The larger of two versions.
Max(a, b) == IF a >= b THEN a ELSE b

\* The call is inside runFileAndSetVersion.
InStep == pc[Main] \in {"open", "begin", "exec", "pragma", "commit"}

\* C6, amended: Upgrade(N) with N > 0 never runs an upgrade script for a
\* version above N and never stores a version above the larger of N and the
\* version it started from. The version it returns without error is at most
\* N when it started at or below N; started above N, it runs nothing and
\* returns the unchanged starting version.
C6_AtMostTarget ==
    ( op[Main] = "up" /\ target[Main] > 0 )
    => /\ \A i \in 1 .. Len(ran[Main]) : VersionOf(ran[Main][i]) <= target[Main]
       /\ InStep => /\ VersionOf(file[Main]) <= target[Main]
                    /\ newver[Main] <= target[Main]
       /\ db.version <= Max(target[Main], start[Main])
       /\ (Done /\ ret[Main].err = NoError) =>
            /\ start[Main] <= target[Main] => ret[Main].v <= target[Main]
            /\ start[Main] > target[Main] =>
                 ret[Main].v = start[Main] /\ ran[Main] = <<>>

\* Upgrade(2) from version 0 stopped at 2 although script 3 is indexed.
C6_Witness ==
    /\ Done
    /\ op[Main] = "up"
    /\ Clean
    /\ target[Main] = 2
    /\ start[Main] = 0
    /\ 3 \in DOMAIN upgrades
    /\ ret[Main] = [v |-> 2, err |-> NoError]
    /\ db.version = 2

\* C7: Downgrade(T) mirrors Upgrade. Each of its steps is taken at a stored
\* version V above T, runs the script indexed under V and stores V-1, both
\* in one transaction; a call that met no failure returned no error and the
\* stored version, which is at most T or has no indexed downgrade script,
\* after running the scripts of start, start-1, .. down to it.
C7_DowngradeMirrors ==
    op[Main] = "down"
    => /\ InStep =>
            /\ vCurr[Main] = db.version
            /\ vCurr[Main] > target[Main]
            /\ vCurr[Main] \in DOMAIN downgrades
            /\ file[Main] = downgrades[vCurr[Main]]
            /\ file[Main] = DownFile(vCurr[Main])
            /\ newver[Main] = vCurr[Main] - 1
       /\ pc[Main] = "commit" => tx[Main].work = DBAt(vCurr[Main] - 1)
       /\ (Done /\ Clean) =>
            /\ ret[Main] = [v |-> db.version, err |-> NoError]
            /\ \/ db.version <= target[Main]
               \/ db.version \notin DOMAIN downgrades
            /\ ran[Main] = DownRun(start[Main], db.version)
            /\ db = DBAt(start[Main] - Len(ran[Main]))
            /\ \A v \in (db.version + 1) .. start[Main] :
                 v > target[Main] /\ v \in DOMAIN downgrades

\* Downgrade(0) from version 3 stopped at 1, which has no downgrade script.
C7_Witness ==
    /\ Done
    /\ op[Main] = "down"
    /\ Clean
    /\ target[Main] = 0
    /\ start[Main] = 3
    /\ DOMAIN downgrades = {2, 3}
    /\ ret[Main] = [v |-> 1, err |-> NoError]
    /\ ran[Main] = <<DownFile(3), DownFile(2)>>

\* C8: round trip. With upgrade and downgrade scripts indexed for 1..N and
\* no failure, Upgrade(N) from version 0 followed by Downgrade(0) returns
\* (0, nil), leaves a database at version 0 with no upgrade in effect, and
\* has run the downgrade scripts N, N-1, .., 1 once each, in that order.
C8_RoundTrip ==
    \A N \in Versions :
        ( /\ Done
          /\ op[Main] = "down"
          /\ target[Main] = 0
          /\ trip[Main] = N
          /\ Clean
          /\ 1 .. N \subseteq DOMAIN upgrades
          /\ 1 .. N \subseteq DOMAIN downgrades )
        => /\ start[Main] = N
           /\ ret[Main] = [v |-> 0, err |-> NoError]
           /\ db = FreshDB
           /\ ran[Main] = DownRun(N, 0)

\* Upgrade(3) from 0 and then Downgrade(0), every script indexed.
C8_Witness ==
    /\ Done
    /\ op[Main] = "down"
    /\ target[Main] = 0
    /\ trip[Main] = MaxV
    /\ Clean
    /\ DOMAIN upgrades = Versions
    /\ DOMAIN downgrades = Versions
    /\ Len(ran[Main]) = MaxV
    /\ db.version = 0

\* C9: the stored version is the highest fully applied upgrade. In every
\* state the upgrade steps in effect in the committed database are exactly
\* 1 .. version, each once, and nothing of a failed script is in it.
C9_VersionIsHighestApplied ==
    /\ db.version >= 0
    /\ InEffect(db) = 1 .. db.version
    /\ \A v \in Versions : db.applied[v] \in {0, 1}
    /\ db.partial = {}

\* An Upgrade call from a fresh database committed two steps and failed in
\* the third.
C9_Witness ==
    /\ Done
    /\ op[Main] = "up"
    /\ start[Main] = 0
    /\ fault[Main] = "exec"
    /\ Len(ran[Main]) = 2
    /\ db.version = 2
    /\ InEffect(db) = {1, 2}

\* C10 (state part): no transaction is open outside the steps between Begin
\* and Commit; a step works on the version read at the head of the loop,
\* which is the stored one, and moves to its neighbour; the scripts a call
\* has committed are those of consecutive versions from its start, and the
\* stored version is the one they lead to.
C10_StepsInOrder ==
    /\ pc[Main] \in {"idle", "loop", "open", "begin", "done"} =>
         ~tx[Main].open /\ writer = NoWriter
    /\ (InStep /\ op[Main] = "up") =>
         /\ vCurr[Main] = db.version
         /\ newver[Main] = vCurr[Main] + 1
         /\ file[Main] = UpFile(vCurr[Main] + 1)
    /\ (InStep /\ op[Main] = "down") =>
         /\ vCurr[Main] = db.version
         /\ newver[Main] = vCurr[Main] - 1
         /\ file[Main] = DownFile(vCurr[Main])
    /\ op[Main] = "up" =>
         /\ db.version = start[Main] + Len(ran[Main])
         /\ ran[Main] = UpRun(start[Main], db.version)
    /\ op[Main] = "down" =>
         /\ db.version = start[Main] - Len(ran[Main])
         /\ ran[Main] = DownRun(start[Main], db.version)

\* C10 (step part): the database changes only by the commit of a step, by
\* exactly +1 (Upgrade) or -1 (Downgrade) of the stored version; the commit
\* closes the transaction and leads back to the head of the loop, where the
\* version is read again; and a transaction begins only from a state with
\* no transaction open.
C10_OneStepAtATime ==
    /\ db' # db =>
         /\ pc[Main] = "commit"
         /\ pc'[Main] = "loop"
         /\ ~tx'[Main].open
         /\ writer' = NoWriter
         /\ db'.version = IF op[Main] = "up" THEN db.version + 1
                          ELSE db.version - 1
    /\ (~tx[Main].open /\ tx'[Main].open) =>
         /\ pc[Main] = "begin"
         /\ vCurr[Main] = db.version
         /\ writer = NoWriter
    /\ (pc[Main] # "loop" /\ pc'[Main] = "open") => FALSE

\* C10: within one call the migration steps are strictly sequential and
\* move the stored version by exactly one each.
C10_Sequential == []C10_StepsInOrder /\ [][C10_OneStepAtATime]_vars

\* The second step of an Upgrade call is in its transaction.
C10_Witness ==
    /\ pc[Main] = "pragma"
    /\ op[Main] = "up"
    /\ Len(ran[Main]) = 1
    /\ tx[Main].open
    /\ vCurr[Main] = start[Main] + 1

\* C11: a step whose script is indexed but absent when it is opened (the
\* open fails with not-exist) stops the call normally: Upgrade / Downgrade
\* have returned the current version with a nil error, the stored version
\* is the one the call read and no transaction was opened; a step whose
\* script cannot be opened or read for another reason makes the call return
\* that failure as its error, with the stored version unchanged as well.
C11_AbsentScriptStops ==
    /\ ( Done /\ fault[Main] = "notexist" )
       => /\ ret[Main] = [v |-> vCurr[Main], err |-> NoError]
          /\ db.version = vCurr[Main]
          /\ db.version = Reached
          /\ db.partial = {}
          /\ file[Main] \in FileNames
          /\ ~tx[Main].open
    /\ ( Done /\ fault[Main] \in {"open", "read"} )
       => /\ ret[Main] = [v |-> vCurr[Main], err |-> fault[Main]]
          /\ ret[Main].err # NoError
          /\ db.version = vCurr[Main]
          /\ db.version = Reached
          /\ ~tx[Main].open

C11_Witness ==
    /\ Done
    /\ fault[Main] = "notexist"
    /\ op[Main] = "up"
    /\ Len(ran[Main]) = 1
    /\ file[Main] = UpFile(start[Main] + 2)
    /\ ret[Main] = [v |-> start[Main] + 1, err |-> NoError]

----------------------------------------------------------------------------
(* Two callers of Upgrade on one DB *)

\* A caller that has made no call yet calls db.Upgrade(UpgradeAll).
CallUpgradeAll(c) ==
    /\ pc[c] = "idle"
    /\ Enter(c, "up", UpgradeAll)
    /\ UNCHANGED <<index, sources, named, made, conn, ret>>

\* The DB that New built over the upgrade scripts of all versions, on a
\* fresh database.
InitDuo ==
    /\ versionFS = Dir(Listing(Versions, {}, 1))
    /\ upgrades = LoadVersions(versionFS).upgrades
    /\ downgrades = LoadVersions(versionFS).downgrades
    /\ db = FreshDB
    /\ Idle
    /\ queryFS = NilFS
    /\ Unused
    /\ made = Made(Options(UpgradeNone, FALSE, versionFS, NilFS))

\* Two callers, each making one call of Upgrade(UpgradeAll), their steps
\* interleaved.
NextDuo ==
    \E c \in Callers :
        \/ CallUpgradeAll(c)
        \/ UpgradeLoop(c)
        \/ OpenScript(c)
        \/ BeginStep(c)
        \/ ExecScript(c)
        \/ ExecPragma(c)
        \/ CommitStep(c)

SpecDuo == InitDuo /\ [][NextDuo]_vars

----------------------------------------------------------------------------
(* Calls with any target, over a script source that has files of version 0 *)

\* The targets of this part: every target of the other parts, one below
\* UpgradeNone and one above the highest indexed version.
AnyTargets == (UpgradeNone - 1) .. (MaxV + 1)

\* The files "0.down.sql" and "0.up.sql", as fs.ReadDir lists them.
ZeroFiles == <<Script(DownFile(0)), Script(UpFile(0))>>

\* The versions with a script of one direction: 1..k, or all but
\* version 2.
ScriptSets == {1 .. k : k \in 0 .. MaxV} \cup {Versions \ {2}}

\* A caller that is in no call calls db.Upgrade(t), t any target.
CallUpgradeAny(c) ==
    /\ pc[c] \in {"idle", "done"}
    /\ \E t \in AnyTargets : Enter(c, "up", t)
    /\ UNCHANGED <<index, sources, named, made, conn, ret>>

\* A caller that is in no call calls db.Downgrade(t), t any target.
CallDowngradeAny(c) ==
    /\ pc[c] \in {"idle", "done"}
    /\ \E t \in AnyTargets : Enter(c, "down", t)
    /\ UNCHANGED <<index, sources, named, made, conn, ret>>

\* The DB that New built with MaxVersion = UpgradeNone over a script source
\* that holds the two files of version 0, and upgrade and downgrade
\* scripts as ScriptSets tells; the database is fresh or was migrated by an earlier run.
InitAny ==
    /\ \E U \in ScriptSets, D \in ScriptSets :
         versionFS = Dir(ZeroFiles \o Listing(U, D, 1))
    /\ upgrades = LoadVersions(versionFS).upgrades
    /\ downgrades = LoadVersions(versionFS).downgrades
    /\ \E n \in 0 .. MaxV : db = DBAt(n)
    /\ Idle
    /\ queryFS = NilFS
    /\ Unused
    /\ made = Made(Options(UpgradeNone, FALSE, versionFS, NilFS))

\* One caller using the DB, with any target.
NextAny ==
    \/ CallUpgradeAny(Main)
    \/ CallDowngradeAny(Main)
    \/ UpgradeLoop(Main)
    \/ DowngradeLoop(Main)
    \/ OpenScript(Main)
    \/ BeginStep(Main)
    \/ ExecScript(Main)
    \/ ExecPragma(Main)
    \/ CommitStep(Main)

SpecAny == InitAny /\ [][NextAny]_vars

\* The caller goes on: a call to the connection or to the script source
\* returns, with a result or with an error, and the caller takes its next
\* step.
LiveAny ==
    /\ SpecAny
    /\ WF_vars(UpgradeLoop(Main))
    /\ WF_vars(DowngradeLoop(Main))
    /\ WF_vars(OpenScript(Main))
    /\ WF_vars(BeginStep(Main))
    /\ WF_vars(ExecScript(Main))
    /\ WF_vars(ExecPragma(Main))
    /\ WF_vars(CommitStep(Main))

----------------------------------------------------------------------------
(* Construction: New of src/liteflow.go *)

\* The script sources New is given: none, one whose directory cannot be
\* read, the upgrade scripts of the versions 1..k, scripts with a gap at
\* version 2, and one where "1.up.sql" is a directory.
VersionSources ==
    {NilFS, UnreadableFS}
    \cup {Dir(Listing(1 .. k, {}, 1)) : k \in 0 .. MaxV}
    \cup {Dir(Listing({1, 3}, {}, 1))}
    \cup {Dir(<<SubDir(UpFile(1)), Script(UpFile(2))>>)}

\* The query source with the directory "d.sql", the file "n.txt" and the
\* chosen statement files "f.sql" (good or bad SQL) and "g.sql", sorted by
\* filename.
QueryListing(f, g) ==
    <<QueryDir(SqlName("d"))>>
    \o (IF f = "good" THEN <<QueryFile(SqlName("f"), <<Sql("s1")>>)>>
        ELSE IF f = "bad"
        THEN <<QueryFile(SqlName("f"), <<Sql(BadSql)>>)>>
        ELSE <<>>)
    \o (IF g THEN <<QueryFile(SqlName("g"), <<Comment, Sql("s2")>>)>>
        ELSE <<>>)
    \o <<QueryFile(TxtName("n"), <<Sql("s1")>>)>>

\* The query sources New is given.
QuerySources ==
    {NilFS, UnreadableFS}
    \cup {Dir(QueryListing(f, g)) :
            f \in {"none", "good", "bad"}, g \in BOOLEAN}

\* The names the callers resolve: files of the query source and "h", of
\* which the query source has no file.
Names == {"f", "g", "d", "n", "h"}

\* The error of Upgrade as New appends it to errs, nil or not.
UpgradeErr(e) == Err(e, NoName, 0, "")

\* The end of New: preload the statements unless inhibited, and return d
\* with the join of the errors.
NewReturns(opts, errs) ==
    LET skip == [statements |-> statements, prepared |-> prepared,
                 errs |-> <<>>]
        p == IF ~opts.QueryFS.nil /\ ~opts.NoPreload
             THEN LoadStatements(opts.QueryFS, statements, prepared)
             ELSE skip
    IN  /\ p.prepared <= MaxStmts
        /\ statements' = p.statements
        /\ prepared' = p.prepared
        /\ made' = [phase |-> "returned", d |-> "db", opts |-> opts,
                    errs |-> errs \o p.errs, err |-> Join(errs \o p.errs)]

\* New(db, opts) with a nil db: return nil, error.
NewRefuses ==
    /\ made.phase = "none"
    /\ made' = [made EXCEPT !.phase = "returned",
                            !.err = Err("nodb", NoName, 0, "")]
    /\ UNCHANGED <<index, sources, conn, statements, prepared, txs,
                   bindings, res>>
    /\ UNCHANGED <<pc, op, target, vCurr, file, newver, ret, start, ran,
                   fault, trip>>

\* New(db, opts) with a db, as far as its call of Upgrade, and to its end
\* when it calls no Upgrade, for the options with MaxVersion in T, VersionFS
\* in V and QueryFS in Q. A nil opts stands for DefaultOptions.
NewWith(T, V, Q) ==
    /\ made.phase = "none"
    /\ \E maxVersion \in T, noPreload \in BOOLEAN, vfs \in V, qfs \in Q :
        LET opts == Options(maxVersion, noPreload, vfs, qfs)
            none == [upgrades |-> <<>>, downgrades |-> <<>>,
                     errs |-> <<>>]
            idx == IF ~vfs.nil THEN LoadVersions(vfs) ELSE none
        IN  /\ versionFS' = vfs
            /\ queryFS' = qfs
            /\ upgrades' = idx.upgrades
            /\ downgrades' = idx.downgrades
            /\ IF ~vfs.nil /\ maxVersion # UpgradeNone
               THEN /\ Enter(Main, "up", maxVersion)
                    /\ made' = [phase |-> "upgrade", d |-> "db",
                                opts |-> opts, errs |-> idx.errs,
                                err |-> NilErr]
                    /\ UNCHANGED <<statements, prepared, ret>>
               ELSE /\ NewReturns(opts, idx.errs)
                    /\ UNCHANGED <<pc, op, target, vCurr, file, newver,
                                   ret, start, ran, fault, trip>>
    /\ UNCHANGED <<conn, txs, bindings, res>>

\* New with any of the options of this model.
NewCall == NewWith(Targets, VersionSources, QuerySources)

\* New after its call of Upgrade has returned.
NewAfterUpgrade ==
    /\ made.phase = "upgrade"
    /\ pc[Main] = "done"
    /\ NewReturns(made.opts, Append(made.errs, UpgradeErr(ret[Main].err)))
    /\ UNCHANGED <<index, sources, conn, txs, bindings, res>>
    /\ UNCHANGED <<pc, op, target, vCurr, file, newver, ret, start, ran,
                   fault, trip>>

\* The DB that New returned is in use, and no operation on it has crashed.
InUse ==
    /\ made.phase = "returned"
    /\ made.d = "db"
    /\ res.out # "panic"

\* What happens to the statement that named returned: the operation
\* returns the error, or runs the statement, or dereferences a nil pointer.
Outcome(stmt, err) ==
    IF err.kind # NoError THEN "error"
    ELSE IF stmt = NilStmt THEN "panic"
    ELSE "ran"

\* DB.Exec, Query, QueryRow and their Context variants, of src/liteflow.go,
\* called with a query name: s, err := db.named(name), then s is run.
DBExec(name) ==
    /\ InUse
    /\ LET r == DBNamed(queryFS, statements, prepared, name)
       IN  /\ r.prepared <= MaxStmts
           /\ statements' = r.statements
           /\ prepared' = r.prepared
           /\ res' = [op |-> "db", tx |-> NoTxId, name |-> name,
                      stmt |-> r.stmt, err |-> r.err,
                      out |-> Outcome(r.stmt, r.err), ended |-> FALSE]
    /\ UNCHANGED <<index, sources, conn, txs, bindings, made>>
    /\ UNCHANGED <<pc, op, target, vCurr, file, newver, ret, start, ran,
                   fault, trip>>

\* The database before New is called: fresh, or migrated by an earlier run.
InitNew ==
    /\ \E n \in 0 .. 1 : db = DBAt(n)
    /\ Idle
    /\ upgrades = <<>>
    /\ downgrades = <<>>
    /\ versionFS = NilFS
    /\ queryFS = NilFS
    /\ Unused
    /\ made = NotMade

\* One call of New, and named operations on the DB it returns.
NextNew ==
    \/ NewRefuses
    \/ NewCall
    \/ UpgradeLoop(Main)
    \/ OpenScript(Main)
    \/ BeginStep(Main)
    \/ ExecScript(Main)
    \/ ExecPragma(Main)
    \/ CommitStep(Main)
    \/ NewAfterUpgrade
    \/ \E name \in Names : DBExec(name)

SpecNew == InitNew /\ [][NextNew]_vars

----------------------------------------------------------------------------
(* New with a MaxVersion below 1, and Upgrade on the DB it made *)

\* The values of MaxVersion and the targets of this part: UpgradeNone, one
\* below it, UpgradeAll and version 1.
BelowTargets == (UpgradeNone - 1) .. 1

\* The script sources of this part: none, one whose directory cannot be
\* read, and upgrade scripts as ScriptSets tells.
BelowSources ==
    {NilFS, UnreadableFS} \cup {Dir(Listing(U, {}, 1)) : U \in ScriptSets}

\* New given one of these script sources, no query source and one of these
\* values of MaxVersion.
NewBelow == NewWith(BelowTargets, BelowSources, {NilFS})

\* A call of db.Upgrade(t) on the DB that New returned with no error.
MigrateBelow ==
    /\ InUse
    /\ made.err = NilErr
    /\ pc[Main] \in {"idle", "done"}
    /\ \E t \in BelowTargets : Enter(Main, "up", t)
    /\ UNCHANGED <<index, sources, named, made, conn, ret>>

\* One call of New, and calls of Upgrade on the DB it returns.
NextBelow ==
    \/ NewBelow
    \/ NewAfterUpgrade
    \/ MigrateBelow
    \/ UpgradeLoop(Main)
    \/ OpenScript(Main)
    \/ BeginStep(Main)
    \/ ExecScript(Main)
    \/ ExecPragma(Main)
    \/ CommitStep(Main)

SpecBelow == InitNew /\ [][NextBelow]_vars

----------------------------------------------------------------------------
(* Claims about New *)

Returned == made.phase = "returned"

\* The entries of the query source that preloading compiles: the files,
\* not directories, whose name ends in ".sql".
StatementFiles(fs) ==
    {i \in DOMAIN fs.entries :
        ~fs.entries[i].isDir /\ fs.entries[i].name.ext = ".sql"}

\* New was asked to preload: it has a query source and NoPreload is unset.
Preloads == ~made.opts.QueryFS.nil /\ ~made.opts.NoPreload

\* New called Upgrade: it has a script source and MaxVersion is not
\* UpgradeNone.
Migrates ==
    ~made.opts.VersionFS.nil /\ made.opts.MaxVersion # UpgradeNone

\* The phases of New that reported an error.
IndexFailed == ~made.opts.VersionFS.nil /\ ~made.opts.VersionFS.readable
MigrationFailed == Migrates /\ ret[Main].err # NoError
PreloadFailures ==
    IF ~Preloads THEN 0
    ELSE IF ~made.opts.QueryFS.readable THEN 1
    ELSE Cardinality({i \in StatementFiles(made.opts.QueryFS) :
            \E k \in DOMAIN made.opts.QueryFS.entries[i].content :
                made.opts.QueryFS.entries[i].content[k].sql = BadSql})

Failures ==
    (IF IndexFailed THEN 1 ELSE 0) + (IF MigrationFailed THEN 1 ELSE 0)
    + PreloadFailures

\* C12: New returns no DB only when it was given no *sql.DB. Otherwise it
\* returns a DB and the join of the errors of its phases, which is nil
\* exactly when no phase failed; every phase runs whatever the phases
\* before it reported (Upgrade is called after a failed index build, and
\* after a failed Upgrade every statement file that compiles is in the
\* cache); and a named operation on the returned DB runs the statement of
\* every file that compiles.
C12_NewCollectsErrors ==
    /\ ( Returned /\ made.d = "nil" ) => made.err.kind = "nodb"
    /\ ( Returned /\ made.d = "db" )
       => /\ (made.err = NilErr) <=> (Failures = 0)
          /\ made.err # NilErr
             => made.err = Err("join", NoName, Failures, "")
          /\ Migrates => pc[Main] = "done"
          /\ Preloads /\ made.opts.QueryFS.readable
             => \A i \in StatementFiles(queryFS) :
                  ~PrepareFails(queryFS.entries[i].content)
                  => queryFS.entries[i].name.base \in DOMAIN statements
          /\ ( /\ res.op = "db"
               /\ HasEntry(queryFS, SqlName(res.name))
               /\ EntryOf(queryFS, SqlName(res.name)).content # <<>>
               /\ ~PrepareFails(EntryOf(queryFS, SqlName(res.name)).content) )
             => /\ res.out = "ran"
                /\ res.stmt = statements[res.name]
                /\ res.stmt.text = EntryOf(queryFS, SqlName(res.name)).content

C12_Witness ==
    /\ Returned
    /\ made.d = "db"
    /\ IndexFailed \/ fault[Main] = "exec"
    /\ MigrationFailed
    /\ PreloadFailures = 1
    /\ made.err = Err("join", NoName, 2, "")
    /\ DOMAIN statements = {"g"}
    /\ res.name = "g"
    /\ res.out = "ran"

\* C13: when New was called with MaxVersion = UpgradeNone and has returned,
\* and no named operation was called since, no migration script was
\* executed, the stored version is the one New found, and the statement
\* cache is empty with no statement prepared, whatever NoPreload is.
C13_UpgradeNoneSkipsAll ==
    ( /\ Returned
      /\ made.d = "db"
      /\ made.opts.MaxVersion = UpgradeNone
      /\ res.op = "none" )
    => /\ pc[Main] = "idle"
       /\ ran[Main] = <<>>
       /\ db \in {DBAt(0), DBAt(1)}
       /\ statements = <<>>
       /\ prepared = 0

\* The statement files of the query source whose SQL compiles.
GoodFiles(fs) ==
    {i \in StatementFiles(fs) : ~PrepareFails(fs.entries[i].content)}

\* C14 (state part): when New has returned with NoPreload set, the cache is
\* empty and no statement was prepared until a name is resolved, and every
\* statement in the cache afterwards was prepared once, from the file of
\* its name; when New has returned with NoPreload unset and a readable
\* query source, every entry that ends in ".sql" and is no directory was
\* compiled during New: the cache holds exactly the statements of the files
\* that compile, each with its file's text, and New collected one error for
\* each of the others.
C14_PreloadOrDefer ==
    ( Returned /\ made.d = "db" )
    => /\ ( made.opts.NoPreload /\ res.op = "none" )
          => statements = <<>> /\ prepared = 0
       /\ made.opts.NoPreload
          => /\ prepared = Cardinality(DOMAIN statements)
             /\ \A name \in DOMAIN statements :
                  /\ HasEntry(queryFS, SqlName(name))
                  /\ statements[name].text
                       = EntryOf(queryFS, SqlName(name)).content
       /\ ( Preloads /\ queryFS.readable /\ res.op = "none" )
          => /\ DOMAIN statements
                  = {queryFS.entries[i].name.base : i \in GoodFiles(queryFS)}
             /\ prepared = Cardinality(GoodFiles(queryFS))
             /\ \A i \in StatementFiles(queryFS) :
                  \/ /\ i \in GoodFiles(queryFS)
                     /\ statements[queryFS.entries[i].name.base].text
                          = queryFS.entries[i].content
                  \/ /\ i \notin GoodFiles(queryFS)
                     /\ \E k \in DOMAIN made.errs :
                          made.errs[k] = Err("prepare",
                                             queryFS.entries[i].name, 0,
                                             queryFS.entries[i].name.base)

\* C14 (step part): with NoPreload set a statement is prepared only by the
\* resolve of a name the cache does not hold, and goes into the cache
\* under that name.
C14_CompiledAtFirstResolve ==
    ( made.opts.NoPreload /\ prepared' # prepared )
    => /\ res'.op = "db"
       /\ res'.name \notin DOMAIN statements
       /\ DOMAIN statements' = DOMAIN statements \cup {res'.name}
       /\ res'.stmt = statements'[res'.name]
       /\ res'.stmt.id = prepared'

\* C14: NoPreload defers every compilation to the first resolve of a name;
\* without it New compiles every statement file of the query source.
C14_NoPreloadDefers ==
    []C14_PreloadOrDefer /\ [][C14_CompiledAtFirstResolve]_vars

C14_Witness ==
    /\ Returned
    /\ Preloads
    /\ res.op = "none"
    /\ Len(queryFS.entries) = 4
    /\ DOMAIN statements = {"g"}
    /\ prepared = 1
    /\ Len(made.errs) = 1

----------------------------------------------------------------------------
(* Construction and named operations of src/unnamed/part_002 *)

\* The lines a statement file is made of here: a blank line, the markers of
\* the fragments a and b, a comment, two lines of SQL, one of them with
\* white space around it, and a line the database does not accept.
LineAlphabet ==
    {Blank, Marker("a"), Marker("b"), Comment, Sql("s1"), Padded(Sql("s2")),
     Sql(BadSql)}

\* The statement files of at most n lines.
Contents(n) == UNION {[1 .. k -> LineAlphabet] : k \in 0 .. n}

\* The query sources that hold the one statement file "f.sql".
ScanSources ==
    {Dir(<<QueryFile(SqlName("f"), c)>>) : c \in Contents(MaxLines)}

\* The names resolved against them: the file, its fragments, and "h", of
\* which the query source has no file.
ScanNames == {"f", "f.a", "f.b", "h"}

\* New of part_002, given a *sql.DB and options with a query source from S
\* and neither a script source nor an init source: it preloads with
\* loadAllStatements unless inhibited, and returns d with the join of the
\* errors.
NewScan(S) ==
    /\ made.phase = "none"
    /\ \E noPreload \in BOOLEAN, qfs \in S :
        LET opts == Options(UpgradeAll, noPreload, NilFS, qfs)
            skip == [statements |-> statements, prepared |-> prepared,
                     errs |-> <<>>]
            p == IF ~qfs.nil /\ ~noPreload
                 THEN LoadAllStatements(qfs, statements, prepared)
                 ELSE skip
        IN  /\ p.prepared <= MaxStmts
            /\ queryFS' = qfs
            /\ statements' = p.statements
            /\ prepared' = p.prepared
            /\ made' = [phase |-> "returned", d |-> "db", opts |-> opts,
                        errs |-> p.errs, err |-> Join(p.errs)]
    /\ UNCHANGED <<index, versionFS, conn, txs, bindings, res>>
    /\ UNCHANGED <<pc, op, target, vCurr, file, newver, ret, start, ran,
                   fault, trip>>

\* DB.Exec, Query, QueryRow and their Context variants, of part_002, called
\* with a query name: s, err := db.named(name), then s is run.
DBExecScan(name) ==
    /\ InUse
    /\ LET r == DBNamedScan(queryFS, statements, prepared, name)
       IN  /\ r.prepared <= MaxStmts
           /\ statements' = r.statements
           /\ prepared' = r.prepared
           /\ res' = [op |-> "db", tx |-> NoTxId, name |-> name,
                      stmt |-> r.stmt, err |-> r.err,
                      out |-> Outcome(r.stmt, r.err), ended |-> FALSE]
    /\ UNCHANGED <<index, sources, conn, txs, bindings, made>>
    /\ UNCHANGED <<pc, op, target, vCurr, file, newver, ret, start, ran,
                   fault, trip>>

\* The first named operation on the DB.
FirstExecScan(name) ==
    /\ res.op = "none"
    /\ DBExecScan(name)

\* New of part_002 on a statement file of any content, and one named
\* operation on the DB it returns.
NextScan ==
    \/ NewScan(ScanSources)
    \/ \E name \in ScanNames : FirstExecScan(name)

\* New is called on a fresh database.
InitScan == InitNew /\ db = FreshDB

SpecScan == InitScan /\ [][NextScan]_vars

----------------------------------------------------------------------------
(* The version index of a script source of any names *)

\* The characters of the filenames used here, in the order of their bytes,
\* by which fs.ReadDir sorts the entries of a directory.
Chars ==
    <<".", "0", "1", "2", "3", "4", "5", "6", "7", "8", "9", "d", "l", "n",
      "o", "p", "q", "s", "u", "v", "w", "x">>

Rank(ch) == CHOOSE i \in DOMAIN Chars : Chars[i] = ch

\* a sorts before b: strings compare byte by byte, and a proper prefix
\* comes first.
Less(a, b) ==
    \E i \in 1 .. (Len(a) + 1) :
        /\ \A k \in 1 .. (i - 1) : k <= Len(b) /\ a[k] = b[k]
        /\ IF i > Len(a) THEN Len(b) >= i
           ELSE i <= Len(b) /\ Rank(a[i]) < Rank(b[i])

\* The entries E of a directory in the order fs.ReadDir returns them.
RECURSIVE SortedDir(_)
SortedDir(E) ==
    IF E = {} THEN <<>>
    ELSE LET m == CHOOSE x \in E :
                    \A y \in E : x = y \/ Less(x.name, y.name)
         IN  <<m>> \o SortedDir(E \ {m})

Sql3 == <<".", "s", "q", "l">>

\* Filenames of a script source, each with the version and the direction
\* it has to be indexed under ("none": it is not indexed).
NameCases ==
    {[name |-> UpFile(1), v |-> 1, dir |-> "up"],
     [name |-> DownFile(1), v |-> 1, dir |-> "down"],
     [name |-> UpFile(2), v |-> 2, dir |-> "up"],
     \* "01.up.sql"
     [name |-> <<"0">> \o UpFile(1), v |-> 1, dir |-> "up"],
     \* "1.up.2.sql"
     [name |-> <<"1">> \o RxUpgrade \o <<"2">> \o Sql3, v |-> 1,
      dir |-> "up"],
     \* "x2.up.sql"
     [name |-> <<"x">> \o UpFile(2), v |-> 2, dir |-> "up"],
     \* "1.up.down.sql"
     [name |-> <<"1">> \o RxUpgrade \o <<"d", "o", "w", "n">> \o Sql3,
      v |-> 1, dir |-> "up"],
     \* "2.down.up.sql"
     [name |-> <<"2">> \o RxDowngrade \o <<"u", "p">> \o Sql3, v |-> 2,
      dir |-> "up"],
     \* "10.down.sql"
     [name |-> DownFile(10), v |-> 10, dir |-> "down"],
     \* "0.up.sql"
     [name |-> UpFile(0), v |-> 0, dir |-> "none"],
     \* "x.0.up.1.sql"
     [name |-> <<"x", ".", "0">> \o RxUpgrade \o <<"1">> \o Sql3, v |-> 0,
      dir |-> "none"],
     \* "up.sql"
     [name |-> <<"u", "p">> \o Sql3, v |-> 0, dir |-> "none"],
     \* "2.sql"
     [name |-> <<"2">> \o Sql3, v |-> 2, dir |-> "none"],
     \* "2up.sql"
     [name |-> <<"2", "u", "p">> \o Sql3, v |-> 2, dir |-> "none"],
     \* "1.down"
     [name |-> <<"1", ".", "d", "o", "w", "n">>, v |-> 1, dir |-> "none"]}

\* The most entries of a script source.
MaxEntries == 3

\* The script sources of at most MaxEntries entries: files of the names
\* above, and maybe the directory "3.up.sql".
IndexSources ==
    {Dir(SortedDir({Script(c.name) : c \in C} \cup D)) :
        C \in {X \in SUBSET NameCases : Cardinality(X) <= MaxEntries},
        D \in {{}, {SubDir(UpFile(3))}}}

\* New of src/liteflow.go given such a script source and no query source.
NewIndex == NewWith({UpgradeAll}, IndexSources, {NilFS})

\* New builds the index of the script source and upgrades as far as the
\* index goes.
NextIndex ==
    \/ NewIndex
    \/ UpgradeLoop(Main)
    \/ OpenScript(Main)
    \/ BeginStep(Main)
    \/ ExecScript(Main)
    \/ ExecPragma(Main)
    \/ CommitStep(Main)
    \/ NewAfterUpgrade

SpecIndex == InitScan /\ [][NextIndex]_vars

----------------------------------------------------------------------------
(* Transactions *)

\* A variant of BindStmt that hands the connection's statement back.
BindStmtShared(t, s, n) == s

\* tx.Stmt(s): the n-th statement bound to a transaction, made of the
\* connection's statement s for the transaction t.
BindStmt(t, s, n) == [id |-> n, text |-> s.text, tx |-> t, of |-> s.id]

\* tx.Stmt(s) on a transaction t that is done: the n-th statement made
\* for a transaction, which holds sql.ErrTxDone and nothing of s; running
\* it returns that error.
DoneStmt(t, n) == [id |-> n, text |-> <<>>, tx |-> t, of |-> 0]

\* DB.Begin / DB.BeginTx: a *Tx with an empty statements map, or nil and an
\* error, which leaves the DB as it was.
Begin(t) ==
    /\ InUse
    /\ txs[t].state = "none"
    /\ \E r \in {"ok", "begin"} :
        IF r = "ok"
        THEN txs' = [txs EXCEPT ![t] = [state |-> "open",
                                        statements |-> <<>>, mark |-> 0]]
        ELSE txs' = txs
    /\ UNCHANGED <<index, sources, conn, statements, prepared, bindings,
                   made, res>>
    /\ UNCHANGED <<pc, op, target, vCurr, file, newver, ret, start, ran,
                   fault, trip>>

\* The transaction t has concluded.
Ended(t) == txs[t].state \in {"committed", "rolledback"}

\* tx.Commit() and tx.Rollback(), the methods of the embedded *sql.Tx: the
\* transaction is done, and the fields of Tx are as they were. mark notes
\* how many statements had been bound by then.
Conclude(t) ==
    /\ InUse
    /\ txs[t].state = "open"
    /\ \E how \in {"committed", "rolledback"} :
         txs' = [txs EXCEPT ![t].state = how, ![t].mark = bindings]
    /\ UNCHANGED <<index, sources, conn, statements, prepared, bindings,
                   made, res>>
    /\ UNCHANGED <<pc, op, target, vCurr, file, newver, ret, start, ran,
                   fault, trip>>

\* A variant of TxNamed that binds the DB's statement in place: the bound
\* statement takes the place of the DB's in the DB's cache.
TxNamedInPlace(t, name, r) ==
    IF name \in DOMAIN txs[t].statements
    THEN [statements |-> statements, prepared |-> prepared,
          local |-> txs[t].statements, bindings |-> bindings,
          stmt |-> txs[t].statements[name], err |-> NilErr, out |-> "ran"]
    ELSE IF r.err.kind # NoError
    THEN [statements |-> r.statements, prepared |-> r.prepared,
          local |-> txs[t].statements, bindings |-> bindings,
          stmt |-> NilStmt, err |-> r.err, out |-> "error"]
    ELSE [statements |-> Put(r.statements, name,
                             BindStmt(t, r.stmt, bindings + 1)),
          prepared |-> r.prepared,
          local |-> Put(txs[t].statements, name,
                        BindStmt(t, r.stmt, bindings + 1)),
          bindings |-> bindings + 1,
          stmt |-> BindStmt(t, r.stmt, bindings + 1),
          err |-> NilErr, out |-> "ran"]

\* Tx.named, where r is what tx.DB.named(name) does on a miss of the
\* transaction's own map: the statement of the map, or the DB's statement
\* bound to the transaction and put in the map. tx.Stmt looks at the
\* transaction first: when it is done the statement it returns is a
\* DoneStmt, whatever it was given, nil included. In a transaction that
\* is open, binding a nil statement dereferences a nil pointer.
TxNamed(t, name, r) ==
    IF name \in DOMAIN txs[t].statements
    THEN [statements |-> statements, prepared |-> prepared,
          local |-> txs[t].statements, bindings |-> bindings,
          stmt |-> txs[t].statements[name], err |-> NilErr, out |-> "ran"]
    ELSE IF r.err.kind # NoError
    THEN [statements |-> r.statements, prepared |-> r.prepared,
          local |-> txs[t].statements, bindings |-> bindings,
          stmt |-> NilStmt, err |-> r.err, out |-> "error"]
    ELSE IF Ended(t)
    THEN [statements |-> r.statements, prepared |-> r.prepared,
          local |-> Put(txs[t].statements, name,
                        DoneStmt(t, bindings + 1)),
          bindings |-> bindings + 1,
          stmt |-> DoneStmt(t, bindings + 1),
          err |-> NilErr, out |-> "ran"]
    ELSE IF r.stmt = NilStmt
    THEN [statements |-> r.statements, prepared |-> r.prepared,
          local |-> txs[t].statements, bindings |-> bindings,
          stmt |-> NilStmt, err |-> NilErr, out |-> "panic"]
    ELSE [statements |-> r.statements, prepared |-> r.prepared,
          local |-> Put(txs[t].statements, name,
                        BindStmt(t, r.stmt, bindings + 1)),
          bindings |-> bindings + 1,
          stmt |-> BindStmt(t, r.stmt, bindings + 1),
          err |-> NilErr, out |-> "ran"]

\* The most statements bound to transactions in a run.
MaxBound == 4

\* Tx.Exec, Query, QueryRow and their Context variants, called with a query
\* name on the transaction t: s, err := tx.named(name), then s is run. A
\* statement of a transaction that is done does not run: it returns
\* sql.ErrTxDone ("txdone").
TxExecWith(t, name, r) ==
    /\ InUse
    /\ txs[t].state # "none"
    /\ LET n == TxNamed(t, name, r)
       IN  /\ n.prepared <= MaxStmts
           /\ n.bindings <= MaxBound
           /\ statements' = n.statements
           /\ prepared' = n.prepared
           /\ bindings' = n.bindings
           /\ txs' = [txs EXCEPT ![t].statements = n.local]
           /\ res' = [op |-> "tx", tx |-> t, name |-> name,
                      stmt |-> n.stmt, err |-> n.err,
                      out |-> IF n.out = "ran" /\ Ended(t)
                              THEN "txdone" ELSE n.out,
                      ended |-> Ended(t)]
    /\ UNCHANGED <<index, sources, conn, made>>
    /\ UNCHANGED <<pc, op, target, vCurr, file, newver, ret, start, ran,
                   fault, trip>>

\* The named operations of Tx in src/liteflow.go.
TxExec(t, name) ==
    TxExecWith(t, name, DBNamed(queryFS, statements, prepared, name))

\* The named operations of Tx in part_002.
TxExecScan(t, name) ==
    TxExecWith(t, name, DBNamedScan(queryFS, statements, prepared, name))

----------------------------------------------------------------------------
(* The statement cache of src/liteflow.go in use *)

\* The query sources with the statement file "f.sql", good or bad.
StmtSources ==
    {NilFS} \cup {Dir(QueryListing(f, g)) : f \in {"good", "bad"},
                                           g \in BOOLEAN}

\* The names resolved against them: two statement files, and "h", of which
\* the query source has no file.
StmtNames == {"f", "g", "h"}

\* New given a query source and no script source.
NewQuery == NewWith({UpgradeAll}, {NilFS}, StmtSources)

\* New of src/liteflow.go, then named operations on the DB and in two
\* transactions.
NextStmt ==
    \/ NewQuery
    \/ \E name \in StmtNames : DBExec(name)
    \/ \E t \in TxIds : Begin(t)
    \/ \E t \in TxIds, name \in StmtNames : TxExec(t, name)

SpecStmt == InitScan /\ [][NextStmt]_vars

\* The names resolved in transactions that conclude.
EndNames == {"f", "h"}

\* New of src/liteflow.go, then named operations on the DB and in two
\* transactions, which commit or roll back and are used after that.
NextEnd ==
    \/ NewQuery
    \/ \E name \in StmtNames : DBExec(name)
    \/ \E t \in TxIds : Begin(t)
    \/ \E t \in TxIds, name \in EndNames : TxExec(t, name)
    \/ \E t \in TxIds : Conclude(t)

SpecEnd == InitScan /\ [][NextEnd]_vars

----------------------------------------------------------------------------
(* The statement cache of part_002 in use *)

\* Statement files: fragments a and b only; SQL before a marker; no marker;
\* no SQL; and a second fragment that does not compile.
MultiContents ==
    {<<Marker("a"), Sql("s1"), Marker("b"), Sql("s2")>>,
     <<Sql("s1"), Marker("a"), Sql("s2")>>,
     <<Sql("s1")>>,
     <<Comment, Blank>>,
     <<Marker("a"), Sql("s1"), Marker("b"), Sql(BadSql)>>}

MultiSources ==
    {NilFS} \cup {Dir(<<QueryFile(SqlName("f"), c)>>) : c \in MultiContents}

\* A call of db.Upgrade(UpgradeAll) on the DB that New returned.
Migrate ==
    /\ InUse
    /\ pc[Main] \in {"idle", "done"}
    /\ Enter(Main, "up", UpgradeAll)
    /\ UNCHANGED <<index, sources, named, made, conn, ret>>

\* New of part_002, then named operations on the DB and in a transaction,
\* open or done, and migration calls.
NextMulti ==
    \/ NewScan(MultiSources)
    \/ \E name \in ScanNames : DBExecScan(name)
    \/ Begin("t1")
    \/ \E name \in ScanNames : TxExecScan("t1", name)
    \/ Conclude("t1")
    \/ Migrate
    \/ UpgradeLoop(Main)

SpecMulti == InitScan /\ [][NextMulti]_vars

----------------------------------------------------------------------------
(* Preloading several statement files *)

\* Statement files: one statement and no marker; the fragments a and b; a
\* file whose second fragment does not compile; one whose first fragment
\* does not compile; and a file of one line that does not compile.
PreloadContents ==
    {<<Sql("s1")>>,
     <<Marker("a"), Sql("s1"), Marker("b"), Padded(Sql("s2"))>>,
     <<Marker("a"), Sql("s1"), Blank, Marker("b"), Sql(BadSql)>>,
     <<Marker("a"), Sql(BadSql), Marker("b"), Sql("s2")>>,
     <<Sql(BadSql)>>}

\* The statement file name.sql of content c, or no file for c = <<>>.
FileOrNone(name, c) ==
    IF c = <<>> THEN <<>> ELSE <<QueryFile(SqlName(name), c)>>

\* The query sources with the directory "d.sql", the statement files
\* "f.sql" and "g.sql", maybe "k.sql", and the file "n.txt", sorted by
\* filename. No source holds more than MaxStmts statements.
PreloadSources ==
    {Dir(<<QueryDir(SqlName("d"))>> \o FileOrNone("f", cf)
         \o FileOrNone("g", cg) \o FileOrNone("k", ck)
         \o <<QueryFile(TxtName("n"), <<Sql("s1")>>)>>) :
       cf \in PreloadContents,
       cg \in PreloadContents \ {<<Marker("a"), Sql("s1"), Marker("b"),
                                   Padded(Sql("s2"))>>},
       ck \in {<<>>, <<Sql("s1")>>, <<Sql(BadSql)>>}}

\* A script source with no script.
EmptyDir == Dir(<<>>)

\* New of src/liteflow.go given an empty script source, MaxVersion
\* UpgradeNone and a query source of several files.
NewPreloadFiles == NewWith({UpgradeNone}, {EmptyDir}, PreloadSources)

\* New of part_002 given no script source and a query source of several
\* files.
NewPreloadFragments == NewScan(PreloadSources)

\* One call of New, of either version of the loader.
NextPreload ==
    \/ NewPreloadFiles
    \/ NewPreloadFragments

SpecPreload == InitScan /\ [][NextPreload]_vars

----------------------------------------------------------------------------
(* A statement file of several fragments, loaded in part and then in use *)

\* The lines of these statement files: the markers of the fragments a and
\* b, a line of SQL, and a line the database does not accept.
PartAlphabet == {Marker("a"), Marker("b"), Sql("s1"), Sql(BadSql)}

\* The query sources that hold the one statement file "f.sql", of at most
\* MaxLines of these lines.
PartSources ==
    {Dir(<<QueryFile(SqlName("f"), c)>>) :
        c \in UNION {[1 .. k -> PartAlphabet] : k \in 0 .. MaxLines}}

\* The names resolved: the file and its fragments.
PartNames == {"f", "f.a", "f.b"}

\* New of part_002 on such a file, then named operations on the DB it
\* returns.
NextPart ==
    \/ NewScan(PartSources)
    \/ \E name \in PartNames : DBExecScan(name)

SpecPart == InitScan /\ [][NextPart]_vars

----------------------------------------------------------------------------
(* The statement cache of src/unnamed/part_000, the first version *)

\* The panic of a write to a nil map, as the state a loader ends in.
NilMapWrite(name) == Err("panic", SqlName(name), 0, name)

\* The panic of fs.ReadDir and fs.ReadFile given a nil fs.FS, which call
\* its method Open.
NilFSCall(fname) == Err("panic", fname, 0, "")

\* The path "/" that loadStatements reads.
RootName == [base |-> "/", ext |-> ""]

\* db.statements of part_000 at the start of a load: the keys of the map,
\* which are none for a nil map, whether the map is nil, and the number
\* of statements prepared so far.
LoaderOld(cache, isNil, n) ==
    [statements |-> cache, nilmap |-> isNil, prepared |-> n, err |-> NilErr]

\* loadStatement of part_000: read name.sql whole, prepare it and put the
\* statement in db.statements. Nothing looks at db.queryFS or at the map
\* before its use.
LoadStatementOld(fs, L, name) ==
    IF fs.nil
    THEN [L EXCEPT !.err = NilFSCall(SqlName(name))]
    ELSE IF ~HasEntry(fs, SqlName(name))
    THEN [L EXCEPT !.err = Err("read", SqlName(name), 0, name)]
    ELSE LET entry == EntryOf(fs, SqlName(name))
         IN  IF entry.isDir
             THEN [L EXCEPT !.err = Err("read", SqlName(name), 0, name)]
             ELSE IF PrepareFails(entry.content)
             THEN [L EXCEPT !.err = Err("prepare", SqlName(name), 0, name)]
             ELSE IF L.nilmap
             THEN [L EXCEPT !.prepared = L.prepared + 1,
                            !.err = NilMapWrite(name)]
             ELSE [L EXCEPT !.statements =
                                Put(L.statements, name,
                                    Stmt(L.prepared + 1, entry.content)),
                            !.prepared = L.prepared + 1]

\* The body of the loop of part_000's loadStatements for one entry, which
\* may be a directory. A panic of loadStatement ends the loop.
LoadEntryOld(fs, A, entry) ==
    IF A.panic.kind # NoError \/ ~HasSqlSuffix(entry.name) THEN A
    ELSE LET r == LoadStatementOld(fs,
                      LoaderOld(A.statements, A.nilmap, A.prepared),
                      TrimSqlSuffix(entry.name))
         IN  [statements |-> r.statements,
              nilmap |-> r.nilmap,
              prepared |-> r.prepared,
              errs |-> IF r.err.kind \notin {NoError, "panic"}
                       THEN Append(A.errs, r.err) ELSE A.errs,
              panic |-> IF r.err.kind = "panic" THEN r.err ELSE NilErr]

RECURSIVE LoadEntriesOld(_, _, _)
LoadEntriesOld(fs, A, i) ==
    IF i > Len(fs.entries) THEN A
    ELSE LoadEntriesOld(fs, LoadEntryOld(fs, A, fs.entries[i]), i + 1)

\* loadStatements of part_000: fs.ReadDir(db.queryFS, "/"), then the map
\* is made and every entry named *.sql is loaded. listed says whether the
\* file system lists its root under the name "/".
LoadStatementsOld(fs, cache, isNil, n, listed) ==
    IF fs.nil
    THEN [statements |-> cache, nilmap |-> isNil, prepared |-> n,
          errs |-> <<>>, panic |-> NilFSCall(RootName)]
    ELSE IF ~(listed /\ fs.readable)
    THEN [statements |-> cache, nilmap |-> isNil, prepared |-> n,
          errs |-> <<Err("readdir", NoName, 0, "")>>, panic |-> NilErr]
    ELSE LoadEntriesOld(fs, [statements |-> <<>>, nilmap |-> FALSE,
                             prepared |-> n, errs |-> <<>>,
                             panic |-> NilErr], 1)

\* DB.Named of part_000: the cached statement, or on a miss the s of the
\* failed read of the map, after loadStatement has put the statement in
\* the map. A nil map holds no name.
DBNamedOld(fs, cache, isNil, n, name) ==
    IF ~isNil /\ name \in DOMAIN cache
    THEN [statements |-> cache, prepared |-> n, stmt |-> cache[name],
          err |-> NilErr]
    ELSE LET r == LoadStatementOld(fs, LoaderOld(cache, isNil, n), name)
         IN  IF r.err.kind = "panic"
             THEN [statements |-> r.statements, prepared |-> r.prepared,
                   stmt |-> NilStmt, err |-> r.err]
             ELSE IF r.err.kind # NoError
             THEN [statements |-> r.statements, prepared |-> r.prepared,
                   stmt |-> NilStmt, err |-> Wrap(name, r.err)]
             ELSE [statements |-> r.statements, prepared |-> r.prepared,
                   stmt |-> NilStmt, err |-> NilErr]

\* New of part_000 with MaxVersion = UpgradeNone and a query source from
\* S: d has a nil statements map; loadStatements runs unless inhibited,
\* and a panic of it ends New with no DB returned.
NewOld(S) ==
    /\ made.phase = "none"
    /\ \E noPreload \in BOOLEAN, qfs \in S, listed \in BOOLEAN :
        LET opts == Options(UpgradeNone, noPreload, NilFS, qfs)
            skip == [statements |-> <<>>, nilmap |-> TRUE,
                     prepared |-> prepared, errs |-> <<>>,
                     panic |-> NilErr]
            p == IF ~noPreload
                 THEN LoadStatementsOld(qfs, <<>>, TRUE, prepared, listed)
                 ELSE skip
        IN  /\ (noPreload \/ qfs.nil \/ ~qfs.readable) => listed
            /\ p.prepared <= MaxStmts
            /\ queryFS' = qfs
            /\ statements' = p.statements
            /\ prepared' = p.prepared
            /\ made' = IF p.panic.kind # NoError
                       THEN [phase |-> "panicked", d |-> "nil",
                             opts |-> opts, errs |-> <<>>,
                             err |-> p.panic, nilmap |-> p.nilmap]
                       ELSE [phase |-> "returned", d |-> "db",
                             opts |-> opts, errs |-> p.errs,
                             err |-> Join(p.errs), nilmap |-> p.nilmap]
    /\ UNCHANGED <<index, versionFS, conn, txs, bindings, res>>
    /\ UNCHANGED <<pc, op, target, vCurr, file, newver, ret, start, ran,
                   fault, trip>>

\* DB.NamedExec, NamedQuery, NamedQueryRow and their Context variants, of
\* part_000: s, err := db.Named(name), then s is run.
DBExecOld(name) ==
    /\ InUse
    /\ LET r == DBNamedOld(queryFS, statements, made.nilmap, prepared, name)
       IN  /\ r.prepared <= MaxStmts
           /\ statements' = r.statements
           /\ prepared' = r.prepared
           /\ res' = [op |-> "db", tx |-> NoTxId, name |-> name,
                      stmt |-> r.stmt, err |-> r.err,
                      out |-> IF r.err.kind = "panic" THEN "panic"
                              ELSE Outcome(r.stmt, r.err),
                      ended |-> FALSE]
    /\ UNCHANGED <<index, sources, conn, txs, bindings, made>>
    /\ UNCHANGED <<pc, op, target, vCurr, file, newver, ret, start, ran,
                   fault, trip>>

\* The query sources given to New of part_000: those of several files,
\* and none.
OldSources == PreloadSources \cup {NilFS}

\* New of part_000, then named operations on the DB.
NextOld ==
    \/ NewOld(OldSources)
    \/ \E name \in {"f", "g", "k", "h"} : DBExecOld(name)

SpecOld == InitScan /\ [][NextOld]_vars

----------------------------------------------------------------------------
(* Claims about the statement files of part_002 *)

\* The lines of the statement file "f.sql".
FileF == EntryOf(queryFS, SqlName("f")).content

\* "f.sql" was loaded, by New or by the resolve of "f".
LoadedF ==
    /\ Returned
    /\ made.d = "db"
    /\ Preloads \/ (res.op = "db" /\ res.name = "f")

\* The marker line that opens the fragment line i belongs to; 0 when no
\* marker precedes line i.
MarkerOf(c, i) ==
    LET ms == {m \in 1 .. (i - 1) : c[m].kind = "marker"}
    IN  IF ms = {} THEN 0
        ELSE CHOOSE m \in ms : \A n \in ms : n <= m

\* The lines of SQL text of c, and those of the fragment that marker line
\* m opens.
SqlLines(c) == {i \in DOMAIN c : c[i].kind = "sql"}
SqlLinesOf(c, m) == {i \in SqlLines(c) : MarkerOf(c, i) = m}

\* The cache key of the fragment that marker line m of "f.sql" opens.
KeyOf(c, m) == IF m = 0 THEN "f" ELSE "f." \o c[m].sub

\* Every line of SQL in c is accepted by the database.
Compiles(c) == \A i \in SqlLines(c) : c[i].sql # BadSql

\* The fragments of c, by their marker lines, that do not compile, and the
\* first of them.
BadFragments(c) ==
    {MarkerOf(c, i) : i \in {j \in SqlLines(c) : c[j].sql = BadSql}}
FirstBad(c) ==
    CHOOSE m \in BadFragments(c) : \A n \in BadFragments(c) : m <= n

\* C15: when "f.sql" is loaded and its SQL compiles, the cache keys are
\* exactly the names of its fragments that have SQL lines: "f.a" and "f.b"
\* for the fragments after the markers a and b, "f" for the SQL lines before
\* the first marker, hence "f" alone for a file with SQL and no marker;
\* every line of a statement's text is a line of SQL of the fragment of
\* that name, never a marker line; and every SQL line before the first
\* marker is in the text of "f".
C15_FragmentsByName ==
    ( LoadedF /\ Compiles(FileF) )
    => /\ DOMAIN statements
            = {KeyOf(FileF, MarkerOf(FileF, i)) : i \in SqlLines(FileF)}
       /\ ( /\ \A i \in DOMAIN FileF : FileF[i].kind # "marker"
            /\ SqlLines(FileF) # {} )
          => DOMAIN statements = {"f"}
       /\ ( /\ SqlLinesOf(FileF, 0) = {}
            /\ \A sub \in {"a", "b"} :
                 \E m \in DOMAIN FileF :
                    FileF[m] = Marker(sub) /\ SqlLinesOf(FileF, m) # {} )
          => DOMAIN statements = {"f.a", "f.b"}
       /\ \A k \in DOMAIN statements :
            \A j \in DOMAIN statements[k].text :
               /\ statements[k].text[j].kind = "sql"
               /\ \E i \in SqlLines(FileF) :
                    /\ KeyOf(FileF, MarkerOf(FileF, i)) = k
                    /\ statements[k].text[j] = [FileF[i] EXCEPT !.pad = FALSE]
       /\ \A i \in SqlLinesOf(FileF, 0) :
            \E j \in DOMAIN statements["f"].text :
               statements["f"].text[j] = [FileF[i] EXCEPT !.pad = FALSE]

C15_Witness ==
    /\ LoadedF
    /\ FileF = <<Marker("a"), Sql("s1"), Marker("b"), Padded(Sql("s2"))>>
    /\ DOMAIN statements = {"f.a", "f.b"}
    /\ statements["f.a"].text = <<Sql("s1")>>
    /\ statements["f.b"].text = <<Sql("s2")>>
    /\ res.name = "f.b"
    /\ res.out = "ran"

\* C16: a statement file with no line of SQL text, only comments, markers
\* and blank lines, loads without error, adds no key to the cache and
\* prepares nothing; and whatever else the file holds, a sub-name whose
\* markers are followed by no SQL line before the next marker or the end
\* of the file is not a key of the cache.
C16_NoSqlNoFragment ==
    /\ ( LoadedF /\ SqlLines(FileF) = {} )
       => /\ statements = <<>>
          /\ prepared = 0
          /\ made.errs = <<>>
          /\ made.err = NilErr
          /\ ( res.op = "db" /\ res.name = "f" ) => res.err = NilErr
    /\ Returned
       => \A sub \in {"a", "b"} :
            ( \A m \in DOMAIN FileF :
                FileF[m] = Marker(sub) => SqlLinesOf(FileF, m) = {} )
            => ("f." \o sub) \notin DOMAIN statements

C16_Witness ==
    /\ LoadedF
    /\ ~Preloads
    /\ FileF = <<Comment, Marker("a"), Blank, Marker("b")>>
    /\ res.name = "f"
    /\ res.err = NilErr
    /\ statements = <<>>
    /\ prepared = 0

\* The error of the load of "f.sql": the one New collected when it
\* preloaded, else the one the resolve of "f" returned.
LoadErrorF == IF Preloads THEN made.errs[1] ELSE res.err

\* C24: when a fragment of "f.sql" fails to compile, the error of the load
\* names the file and carries the 1-based number, among all lines of the
\* file, of the marker line that opens the failing fragment, or the number
\* of lines of the file when the failing fragment has no marker.
C24_ErrorLineIsMarkerLine ==
    ( LoadedF /\ ~Compiles(FileF) )
    => /\ LoadErrorF.file = SqlName("f")
       /\ LoadErrorF.line = IF FirstBad(FileF) = 0 THEN Len(FileF)
                            ELSE FirstBad(FileF)

\* The lines I of c, in file order, each without the white space around
\* it.
RECURSIVE TrimmedLines(_, _)
TrimmedLines(c, I) ==
    IF I = {} THEN <<>>
    ELSE LET i == CHOOSE x \in I : \A y \in I : x <= y
         IN  <<[c[i] EXCEPT !.pad = FALSE]>> \o TrimmedLines(c, I \ {i})

\* The fragments of c that are compiled: the marker lines, and 0 for the
\* lines before the first marker, that have a line of SQL after them.
Fragments(c) == {MarkerOf(c, i) : i \in SqlLines(c)}

\* C28: when "f.sql" is loaded and compiles, the text of every statement
\* in the cache is the text of a fragment that has its name, the last of
\* them in the file: the lines of the file between the fragment's marker
\* and the next marker or the end of the file that are neither blank, nor
\* markers, nor comments, in file order, each trimmed of the white space
\* around it; a blank line is in no text and does not end a fragment.
C28_TextIsTrimmedSqlLines ==
    ( LoadedF /\ Compiles(FileF) )
    => /\ DOMAIN statements = {KeyOf(FileF, m) : m \in Fragments(FileF)}
       /\ \A k \in DOMAIN statements :
            \E m \in Fragments(FileF) :
               /\ KeyOf(FileF, m) = k
               /\ \A n \in Fragments(FileF) : KeyOf(FileF, n) = k => n <= m
               /\ statements[k].text
                    = TrimmedLines(FileF, SqlLinesOf(FileF, m))
       /\ \A k \in DOMAIN statements :
            \A j \in DOMAIN statements[k].text :
               /\ statements[k].text[j].kind = "sql"
               /\ ~statements[k].text[j].pad

\* A blank line between the two lines of the fragment a, the second with
\* white space around it.
C28_Witness ==
    /\ LoadedF
    /\ FileF = <<Marker("a"), Sql("s1"), Blank, Padded(Sql("s2"))>>
    /\ DOMAIN statements = {"f.a"}
    /\ statements["f.a"].text = <<Sql("s1"), Sql("s2")>>
    /\ res.name = "f.a"
    /\ res.stmt = statements["f.a"]

----------------------------------------------------------------------------
(* Claims about the statement cache of part_002 *)

\* The last operation resolved a name, on the DB or in a transaction.
Resolved == res.op \in {"db", "tx"}

\* C17: a resolve never returns a nil error together with no statement:
\* when the name is absent from the cache after its file was loaded, the
\* resolve has returned an error.
C17_MissFailsOrFinds ==
    Resolved => ( res.err = NilErr => res.stmt # NilStmt )

\* The statement file "f.sql" declares the fragment a with a marker.
DeclaresA == \E m \in DOMAIN FileF : FileF[m] = Marker("a")

\* C18 as stated: when preloading was skipped and "f.sql" declares the
\* fragment a, a resolve of "f.a" has returned an error, whatever the cache
\* held.
C18_DottedNameAlwaysFails ==
    ( /\ Returned
      /\ ~queryFS.nil
      /\ ~Preloads
      /\ DeclaresA
      /\ Resolved
      /\ res.name = "f.a" )
    => res.err # NilErr

\* C18 (state part): when preloading was skipped, a resolve of "f.a" has
\* returned an error exactly when the cache does not hold "f.a", and the
\* statement of the cache otherwise, or in a transaction that is done a
\* statement that does not run.
C18_FailsWhileNotCached ==
    ( /\ Returned
      /\ ~queryFS.nil
      /\ ~Preloads
      /\ Resolved
      /\ res.name = "f.a" )
    => /\ (res.err # NilErr) <=> ("f.a" \notin DOMAIN statements)
       /\ res.err # NilErr
          => /\ res.err.kind = "load:open"
             /\ res.err.file = SqlName("f.a")
             /\ res.stmt = NilStmt
       /\ res.err = NilErr
          => /\ res.stmt # NilStmt
             /\ \/ res.stmt.text = statements["f.a"].text
                \/ (res.ended /\ res.out = "txdone")

\* C18 (step part): when preloading was skipped, "f.a" enters the cache
\* only by a resolve of the base name "f", which loads "f.sql".
C18_CachedByBaseName ==
    ( /\ Returned
      /\ ~Preloads
      /\ "f.a" \notin DOMAIN statements
      /\ "f.a" \in DOMAIN statements' )
    => /\ res'.name = "f"
       /\ Resolved'

\* C18, amended: with preloading skipped, resolving "f.a" fails as long as
\* the cache does not hold "f.a", and the cache comes to hold it only when
\* the base name "f" is resolved.
C18_DottedNameFailsUntilBaseLoaded ==
    []C18_FailsWhileNotCached /\ [][C18_CachedByBaseName]_vars

C18_Witness ==
    /\ Returned
    /\ ~queryFS.nil
    /\ ~Preloads
    /\ DeclaresA
    /\ res.op = "db"
    /\ res.name = "f.a"
    /\ res.err.kind = "load:open"
    /\ statements = <<>>
    /\ prepared = 0

\* C19: a step never removes a key of the statement cache, nor replaces
\* the statement of a key by another one.
C19_CacheEntriesStable ==
    [][ \A name \in DOMAIN statements :
          /\ name \in DOMAIN statements'
          /\ statements'[name] = statements[name] ]_vars

\* C22: no named operation, on the DB or in a transaction, crashes: it runs
\* a compiled statement or returns an error, and never runs or binds a nil
\* statement.
C22_NoOperationCrashes ==
    /\ res.out # "panic"
    /\ res.out \in {"ran", "txdone"} => res.stmt # NilStmt
    /\ \A t \in TxIds : \A n \in DOMAIN txs[t].statements :
         txs[t].statements[n] # NilStmt

----------------------------------------------------------------------------
(* Claims about the version index *)

\* New has built the index.
Indexed == made.phase # "none" /\ made.d = "db"

\* What the filename of entry i of the script source has to be indexed
\* under.
CaseAt(i) == CHOOSE c \in NameCases : c.name = versionFS.entries[i].name

\* The entries of the script source that are files to index under version
\* v in direction dir.
EntriesFor(dir, v) ==
    {i \in DOMAIN versionFS.entries :
        /\ ~versionFS.entries[i].isDir
        /\ CaseAt(i).dir = dir
        /\ CaseAt(i).v = v
        /\ v > 0}

\* The versions the script source has a file for in direction dir.
VersionsFor(dir) == {v \in 1 .. 10 : EntriesFor(dir, v) # {}}

\* The filenames in the index.
IndexedNames(m) == {m[v] : v \in DOMAIN m}

\* C26: the index holds, under a version v > 0, a file of the script source
\* whose first run of digits is v: as an upgrade when its name has ".up.",
\* a name that has ".down." too included, and as a downgrade when its name
\* has ".down." and no ".up."; it holds nothing for a name with no digit or
\* whose first run of digits is 0, for a name with neither marker, and for
\* a directory; and building it runs no script.
C26_IndexByFirstDigitsAndMarker ==
    Indexed
    => /\ DOMAIN upgrades = VersionsFor("up")
       /\ DOMAIN downgrades = VersionsFor("down")
       /\ \A v \in DOMAIN upgrades :
            \E i \in EntriesFor("up", v) :
                upgrades[v] = versionFS.entries[i].name
       /\ \A v \in DOMAIN downgrades :
            \E i \in EntriesFor("down", v) :
                downgrades[v] = versionFS.entries[i].name
       /\ \A i \in DOMAIN versionFS.entries :
            ( versionFS.entries[i].isDir \/ CaseAt(i).dir = "none"
              \/ CaseAt(i).v = 0 )
            => versionFS.entries[i].name
                 \notin IndexedNames(upgrades) \cup IndexedNames(downgrades)
       /\ made.phase = "upgrade" /\ pc[Main] = "loop" /\ ran[Main] = <<>>
          /\ vCurr[Main] = 0
          => db = FreshDB

\* New was given "1.up.down.sql", "10.down.sql" and "x2.up.sql".
C26_Witness ==
    /\ Indexed
    /\ Len(versionFS.entries) = 3
    /\ upgrades = (1 :> (<<"1">> \o RxUpgrade \o <<"d", "o", "w", "n">>
                         \o Sql3)
                   @@ 2 :> (<<"x">> \o UpFile(2)))
    /\ downgrades = (10 :> DownFile(10))
    /\ Returned
    /\ db.version = 2

\* C27: of the files of the script source that belong under
\* one version and direction, the index holds the one that fs.ReadDir
\* lists last; New collects no error for the others (the one error it
\* collects is what Upgrade returned, nil when nothing failed); and Upgrade
\* runs, for a version, the file the index holds and no other.
C27_LastListedWins ==
    Indexed
    => /\ \A v \in DOMAIN upgrades :
            \E i \in EntriesFor("up", v) :
                /\ upgrades[v] = versionFS.entries[i].name
                /\ \A j \in EntriesFor("up", v) : j <= i
       /\ \A v \in DOMAIN downgrades :
            \E i \in EntriesFor("down", v) :
                /\ downgrades[v] = versionFS.entries[i].name
                /\ \A j \in EntriesFor("down", v) : j <= i
       /\ made.errs = IF Returned THEN <<UpgradeErr(ret[Main].err)>>
                       ELSE <<>>
       /\ \A k \in DOMAIN ran[Main] : ran[Main][k] = upgrades[k]
       /\ pc[Main] \in {"open", "begin", "exec", "pragma", "commit"}
          => file[Main] = upgrades[newver[Main]]
       /\ ( Returned /\ Clean ) => made.err = NilErr

\* New was given "01.up.sql", "1.up.2.sql" and "1.up.sql", and has run the
\* last of them as the upgrade to version 1.
C27_Witness ==
    /\ Returned
    /\ Len(versionFS.entries) = 3
    /\ EntriesFor("up", 1) = {1, 2, 3}
    /\ versionFS.entries[1].name = <<"0">> \o UpFile(1)
    /\ upgrades = (1 :> UpFile(1))
    /\ ran[Main] = <<UpFile(1)>>
    /\ db.applied[1] = 1
    /\ db.version = 1
    /\ made.err = NilErr

----------------------------------------------------------------------------
(* Claims about preloading *)

\* In SpecPreload the New of src/liteflow.go is the one given a script
\* source; the New of part_002 is given none.
ByFile == ~made.opts.VersionFS.nil
ByFragments == made.opts.VersionFS.nil

\* The content and the base name of entry i of the query source.
ContentAt(i) == queryFS.entries[i].content
BaseAt(i) == queryFS.entries[i].name.base

\* The cache key of the fragment that marker line m of base.sql opens.
KeyIn(base, c, m) == IF m = 0 THEN base ELSE base \o "." \o c[m].sub

\* The statement files of the query source that fail to compile.
FailingFiles == {i \in StatementFiles(queryFS) : ~Compiles(ContentAt(i))}

\* The errors New collected for entry i of the query source.
ErrorsOf(i) ==
    {k \in DOMAIN made.errs : made.errs[k].file = queryFS.entries[i].name}

\* C23: when New has preloaded a query source, the errors it collected are
\* one for each statement file that fails to compile and none for any
\* other file, and the error it returns is their join; every statement
\* file that compiles is in the cache whatever its siblings did, under its
\* name with its whole text (src/liteflow.go) or under the names of its
\* fragments (part_002); and of a file that fails, nothing is loaded from
\* the failing statement on.
C23_PreloadFailureIsPerFile ==
    ( Returned /\ made.d = "db" /\ Preloads /\ queryFS.readable )
    => /\ Len(made.errs) = Cardinality(FailingFiles)
       /\ made.err = IF FailingFiles = {} THEN NilErr
                     ELSE Err("join", NoName, Cardinality(FailingFiles), "")
       /\ \A i \in StatementFiles(queryFS) :
            Cardinality(ErrorsOf(i)) = IF i \in FailingFiles THEN 1 ELSE 0
       /\ \A i \in StatementFiles(queryFS) \ FailingFiles :
            /\ ByFile
               => /\ BaseAt(i) \in DOMAIN statements
                  /\ statements[BaseAt(i)].text = ContentAt(i)
            /\ ByFragments
               => \A l \in SqlLines(ContentAt(i)) :
                    LET key == KeyIn(BaseAt(i), ContentAt(i),
                                     MarkerOf(ContentAt(i), l))
                    IN  /\ key \in DOMAIN statements
                        /\ \E j \in DOMAIN statements[key].text :
                             statements[key].text[j]
                               = TrimSpace(ContentAt(i)[l])
       /\ \A i \in FailingFiles :
            /\ ByFile => BaseAt(i) \notin DOMAIN statements
            /\ ByFragments
               => \A l \in SqlLines(ContentAt(i)) :
                    MarkerOf(ContentAt(i), l) >= FirstBad(ContentAt(i))
                    => KeyIn(BaseAt(i), ContentAt(i),
                             MarkerOf(ContentAt(i), l))
                         \notin DOMAIN statements

\* part_002 has preloaded "f.sql", whose second fragment fails, then
\* "g.sql", whose one line fails, then "k.sql", which compiles.
C23_Witness ==
    /\ Returned
    /\ Preloads
    /\ ByFragments
    /\ Len(queryFS.entries) = 5
    /\ ContentAt(2) = <<Marker("a"), Sql("s1"), Blank, Marker("b"),
                        Sql(BadSql)>>
    /\ ContentAt(3) = <<Sql(BadSql)>>
    /\ ContentAt(4) = <<Sql("s1")>>
    /\ DOMAIN statements = {"f.a", "k"}
    /\ Len(made.errs) = 2
    /\ made.err = Err("join", NoName, 2, "")

----------------------------------------------------------------------------
(* Claims about transactions, on the code of src/liteflow.go *)

\* The statements bound in the transactions' own caches, with their place.
Bound ==
    {[tx |-> t, name |-> n] :
        t \in TxIds, n \in UNION {DOMAIN txs[u].statements : u \in TxIds}}
    \cap {b \in [tx : TxIds, name : Names] :
            b.name \in DOMAIN txs[b.tx].statements}

\* C20 (state part): every statement in a transaction's cache is bound to
\* that transaction and was made of the statement the DB's cache holds
\* under the same name; no two entries, of one transaction or of two, are
\* the same bound statement; and a lookup that succeeded in a transaction
\* has returned the entry of that transaction's cache.
C20_BoundToOwnTx ==
    /\ \A b \in Bound :
        /\ txs[b.tx].state # "none"
        /\ txs[b.tx].statements[b.name].tx = b.tx
        /\ b.name \in DOMAIN statements
        /\ txs[b.tx].statements[b.name].of = statements[b.name].id
        /\ txs[b.tx].statements[b.name].text = statements[b.name].text
    /\ \A b, c \in Bound :
        b # c => txs[b.tx].statements[b.name].id
                   # txs[c.tx].statements[c.name].id
    /\ ( res.op = "tx" /\ res.out \in {"ran", "txdone"} )
       => /\ res.name \in DOMAIN txs[res.tx].statements
          /\ res.stmt = txs[res.tx].statements[res.name]
    /\ ( res.op = "tx" /\ res.out \notin {"ran", "txdone"} )
       => /\ res.out = "error"
          /\ res.name \notin DOMAIN txs[res.tx].statements
          /\ res.name \notin DOMAIN statements

\* C20 (step part): an entry of a transaction's cache is never replaced; a
\* statement is bound only by a lookup, in some transaction, of a name that
\* transaction's cache does not hold, which puts the new statement in that
\* cache under that name; and a step changes the cache of one transaction
\* at most, the one of the lookup.
C20_BindsOnceInOwnTx ==
    /\ \A b \in Bound :
        /\ b.name \in DOMAIN txs'[b.tx].statements
        /\ txs'[b.tx].statements[b.name] = txs[b.tx].statements[b.name]
    /\ bindings' # bindings
       => /\ bindings' = bindings + 1
          /\ res'.op = "tx"
          /\ res'.name \notin DOMAIN txs[res'.tx].statements
          /\ DOMAIN txs'[res'.tx].statements
               = DOMAIN txs[res'.tx].statements \cup {res'.name}
          /\ txs'[res'.tx].statements[res'.name].id = bindings'
          /\ \A u \in TxIds \ {res'.tx} : txs'[u] = txs[u]
    /\ bindings' = bindings
       => \A u \in TxIds : txs'[u].statements = txs[u].statements

\* C20: a transaction binds a name once, at its first lookup, to a
\* statement of its own, and looks it up in its own cache afterwards.
C20_TxScopedReuse == []C20_BoundToOwnTx /\ [][C20_BindsOnceInOwnTx]_vars

C20_Witness ==
    /\ txs["t1"].state = "open"
    /\ txs["t2"].state = "open"
    /\ "f" \in DOMAIN txs["t1"].statements
    /\ "f" \in DOMAIN txs["t2"].statements
    /\ txs["t1"].statements["f"].of = txs["t2"].statements["f"].of
    /\ txs["t1"].statements["f"].id # txs["t2"].statements["f"].id
    /\ bindings = 2
    /\ res.op = "tx"
    /\ res.tx = "t1"
    /\ res.name = "f"
    /\ res.stmt.id = 1

\* C29 (state part): a statement of the DB's cache is a statement of the
\* connection, bound to no transaction, that runs outside any transaction
\* whatever the transactions that bound it have done.
C29_BaseStatementsUnbound ==
    /\ \A n \in DOMAIN statements :
        /\ statements[n].tx = NoTxId
        /\ statements[n].of = 0
        /\ statements[n].id \in 1 .. prepared
    /\ ( res.op = "db" /\ res.err = NilErr )
       => /\ res.out = "ran"
          /\ res.stmt = statements[res.name]

\* C29 (step part): no step replaces or removes an entry of the DB's
\* cache; beginning, committing and rolling back a transaction leave the
\* cache as it is; and a lookup in a transaction changes it only by adding
\* the statement compiled for the name looked up, when the cache did not
\* hold that name; the statement the lookup binds is another statement
\* than the DB's, made of it when the transaction is open.
C29_TxLeavesCacheEntries ==
    /\ \A n \in DOMAIN statements :
        n \in DOMAIN statements' /\ statements'[n] = statements[n]
    /\ txs' # txs /\ bindings' = bindings /\ res' = res
       => statements' = statements
    /\ ( res'.op = "tx" /\ statements' # statements )
       => /\ res'.name \notin DOMAIN statements
          /\ DOMAIN statements' = DOMAIN statements \cup {res'.name}
          /\ prepared' = prepared + 1
          /\ statements'[res'.name].id = prepared'
    /\ ( res'.op = "tx" /\ bindings' # bindings )
       => /\ res'.stmt # statements'[res'.name]
          /\ res'.stmt.tx = res'.tx
          /\ ~res'.ended => res'.stmt.of = statements'[res'.name].id

\* C29: binding a statement to a transaction leaves the DB's statement as
\* it was.
C29_BindingKeepsBaseStatement ==
    []C29_BaseStatementsUnbound /\ [][C29_TxLeavesCacheEntries]_vars

\* "f" was compiled by a lookup in t1, t1 was committed, and "f" has run
\* on the DB after that.
C29_Witness ==
    /\ ~Preloads
    /\ txs["t1"].state = "committed"
    /\ "f" \in DOMAIN txs["t1"].statements
    /\ txs["t1"].statements["f"].of = statements["f"].id
    /\ res.op = "db"
    /\ res.name = "f"
    /\ res.out = "ran"
    /\ res.stmt = statements["f"]
    /\ res.stmt.tx = NoTxId

\* C21: a named lookup on a transaction that has concluded returns no
\* statement that was bound, and put in the transaction's cache, before it
\* concluded.
C21_EndedTxDropsCache ==
    ( res.op = "tx" /\ res.ended /\ res.stmt # NilStmt )
    => res.stmt.id > txs[res.tx].mark

----------------------------------------------------------------------------
(* Claims about the lazy fallback of the statement cache *)

\* The query source has the file name.sql, with no marker in it, and the
\* file compiles.
CompilesAlone(name) ==
    /\ ~queryFS.nil
    /\ HasEntry(queryFS, SqlName(name))
    /\ ~EntryOf(queryFS, SqlName(name)).isDir
    /\ LET c == EntryOf(queryFS, SqlName(name)).content
       IN  /\ \A i \in DOMAIN c : c[i].kind # "marker"
           /\ \A i \in DOMAIN c : c[i].sql # BadSql

\* C30 (state part): a resolve on the DB of a name whose marker-free file
\* compiles has returned the statement the cache holds under the name,
\* and that statement has run.
C30_ResolveReturnsCached ==
    ( res.op = "db" /\ CompilesAlone(res.name) )
    => /\ res.out = "ran"
       /\ res.err = NilErr
       /\ res.name \in DOMAIN statements
       /\ res.stmt = statements[res.name]
       /\ res.stmt # NilStmt

\* C30 (step part): a resolve on the DB of a name the cache holds compiles
\* nothing and leaves the cache as it is; a resolve that misses compiles
\* one statement at most.
C30_HitCompilesNothing ==
    ( res'.op = "db" /\ (res' # res \/ prepared' # prepared) )
    => /\ res'.name \in DOMAIN statements
          => /\ prepared' = prepared
             /\ statements' = statements
             /\ res'.stmt = statements[res'.name]
       /\ prepared' <= prepared + 1

\* C30: the lazy fallback returns the statement it compiled, and later
\* resolves return that statement without compiling again.
C30_LazyReturnsCompiled ==
    []C30_ResolveReturnsCached /\ [][C30_HitCompilesNothing]_vars

----------------------------------------------------------------------------
(* Claims about two callers of Upgrade *)

Other == "other"

\* How many times caller c has committed the upgrade script of version v.
Commits(c, v) == Cardinality({i \in DOMAIN ran[c] : ran[c][i] = UpFile(v)})

\* C25 (state part): nothing keeps two callers from running the same
\* script: the database holds every upgrade as many times as the two
\* callers together have committed its script.
C25_EveryCommitCounts ==
    \A v \in Versions : db.applied[v] = Commits(Main, v) + Commits(Other, v)

\* C25 (step part): the commit of a step stores the version that follows
\* the one its caller read before the step's transaction began, and puts
\* the script of that version in effect once more, whatever version the
\* database holds by then.
C25_CommitUsesEarlierRead ==
    \A c \in Callers :
        ( pc[c] = "commit" /\ pc'[c] = "loop" )
        => /\ db'.version = vCurr[c] + 1
           /\ db'.applied = [db.applied EXCEPT ![vCurr[c] + 1] = @ + 1]

\* C25: Upgrade gives no mutual exclusion between two callers of one DB.
C25_NoMutualExclusion ==
    []C25_EveryCommitCounts /\ [][C25_CommitUsesEarlierRead]_vars

\* Both callers read version 0; Main committed the scripts 1 and 2; then
\* Other committed script 1: it is in effect twice, and the stored version
\* went from 2 down to 1.
C25_Witness ==
    /\ ran[Main] = <<UpFile(1), UpFile(2)>>
    /\ ran[Other] = <<UpFile(1)>>
    /\ pc[Main] = "loop"
    /\ pc[Other] = "loop"
    /\ db.applied[1] = 2
    /\ db.applied[2] = 1
    /\ db.version = 1

----------------------------------------------------------------------------
(* Claims about a statement file loaded in part *)

\* The fragments of c that come before the first one that does not
\* compile.
GoodBefore(c) == {m \in Fragments(c) : m < FirstBad(c)}

\* The cache keys of those fragments.
GoodKeys(c) == {KeyOf(c, m) : m \in GoodBefore(c)}

\* The step is a named operation on the DB for the name.
Resolves(name) ==
    /\ res'.op = "db"
    /\ res'.name = name
    /\ <<res, statements, prepared>>' # <<res, statements, prepared>>

\* C33 (state part): with a fragment of "f.sql" that does not compile, the
\* cache never holds a key or a text of that fragment or of a later one:
\* every statement in it has the text of a fragment before the failing
\* one; and once New has preloaded, or "f" was resolved, the cache holds
\* every fragment before the failing one.
C33_CacheHoldsFragmentsBefore ==
    ( Returned /\ made.d = "db" /\ ~made.opts.QueryFS.nil
      /\ ~Compiles(FileF) )
    => /\ DOMAIN statements \subseteq GoodKeys(FileF)
       /\ \A k \in DOMAIN statements :
            \E m \in GoodBefore(FileF) :
               /\ KeyOf(FileF, m) = k
               /\ \A n \in GoodBefore(FileF) :
                    KeyOf(FileF, n) = k => n <= m
               /\ statements[k].text
                    = TrimmedLines(FileF, SqlLinesOf(FileF, m))
       /\ ( Preloads \/ (res.op = "db" /\ res.name = "f") )
          => DOMAIN statements = GoodKeys(FileF)
       /\ Preloads
          => /\ Len(made.errs) = 1
             /\ made.errs[1].kind = "prepare"
             /\ made.err # NilErr

\* C33 (load part): the resolve of "f" that loads such a file returns the
\* error of the failing fragment and leaves the fragments before it in the
\* cache.
C33_FailedLoadReturnsError ==
    ( /\ Resolves("f")
      /\ "f" \notin DOMAIN statements
      /\ ~Compiles(FileF) )
    => /\ res'.err.kind = "load:prepare"
       /\ res'.stmt = NilStmt
       /\ res'.out = "error"
       /\ DOMAIN statements' = GoodKeys(FileF)

\* C33 (resolve part): a name the cache holds resolves to the cached
\* statement with no error, whether or not its file failed to load.
C33_CachedFragmentResolves ==
    \A name \in PartNames :
        ( Resolves(name) /\ name \in DOMAIN statements )
        => /\ res'.err = NilErr
           /\ res'.stmt = statements[name]
           /\ res'.out = "ran"
           /\ statements' = statements

\* C33: in the loader of part_002, a fragment that fails to compile leaves
\* the fragments before it in the cache, where they resolve, registers
\* neither itself nor any fragment after it, and the load returns the
\* error: a file is not loaded all-or-nothing.
C33_LoadIsNotAllOrNothing ==
    /\ []C33_CacheHoldsFragmentsBefore
    /\ [][C33_FailedLoadReturnsError /\ C33_CachedFragmentResolves]_vars

\* Without preloading, the second fragment of "f.sql" failed, and the first
\* one, "f.a", was then resolved from the cache.
C33_Witness ==
    /\ Returned
    /\ ~Preloads
    /\ FileF = <<Marker("a"), Sql("s1"), Marker("b"), Sql(BadSql)>>
    /\ DOMAIN statements = {"f.a"}
    /\ res.op = "db"
    /\ res.name = "f.a"
    /\ res.out = "ran"
    /\ res.stmt = statements["f.a"]

----------------------------------------------------------------------------
(* Claims about calls with any target *)

\* C31: the stored version is never negative, whatever calls of Upgrade
\* and Downgrade are made with whatever targets, negative ones included,
\* on a database that started at a version >= 0: no downgrade script is
\* indexed under version 0, even when the script source has a file of
\* that version.
C31_VersionNeverNegative ==
    /\ db.version >= 0
    /\ \A c \in Callers : tx[c].work.version >= 0
    /\ 0 \notin DOMAIN downgrades
    /\ 0 \notin DOMAIN upgrades

\* A Downgrade below version 0 has gone down to version 0 and stopped
\* there, the script source holding "0.down.sql".
C31_Witness ==
    /\ pc[Main] = "done"
    /\ op[Main] = "down"
    /\ target[Main] < 0
    /\ fault[Main] = "none"
    /\ Len(ran[Main]) >= 2
    /\ db.version = 0
    /\ ret[Main] = [v |-> 0, err |-> NoError]
    /\ \E i \in DOMAIN versionFS.entries :
         versionFS.entries[i].name = DownFile(0)

\* C32 (state part): a call that returned because the stored version could
\* not be read returned (0, that error); the database holds the steps the
\* call committed before, no more and no fewer, and no transaction is
\* open.
C32_VersionErrorKeepsCommitted ==
    ( Done /\ fault[Main] = "version" )
    => /\ ret[Main] = [v |-> 0, err |-> "version"]
       /\ db = DBAt(Reached)
       /\ ran[Main] = IF op[Main] = "up" THEN UpRun(start[Main], Reached)
                      ELSE DownRun(start[Main], Reached)
       /\ ~tx[Main].open
       /\ writer = NoWriter

\* C32 (step part): the step in which the version read fails is the
\* return of the call; it opens no script and leaves the database alone.
C32_VersionErrorReturnsAtOnce ==
    ( fault[Main] # "version" /\ fault'[Main] = "version" )
    => /\ pc[Main] = "loop"
       /\ pc'[Main] = "done"
       /\ ret'[Main] = [v |-> 0, err |-> "version"]
       /\ UNCHANGED <<db, tx, ran, file, newver>>

\* C32: when reading the stored version fails at the head of an iteration
\* of Upgrade or Downgrade, the call returns that error at once, runs no
\* further script, leaves the stored version as the earlier steps of the
\* call committed it, and reports version 0, not the version reached.
C32_VersionErrorReportsZero ==
    /\ []C32_VersionErrorKeepsCommitted
    /\ [][C32_VersionErrorReturnsAtOnce]_vars

\* An Upgrade that committed two steps and then could not read the
\* version: it returned 0 with the database at version 2 or above.
C32_Witness ==
    /\ Done
    /\ op[Main] = "up"
    /\ fault[Main] = "version"
    /\ Len(ran[Main]) = 2
    /\ db.version >= 2
    /\ ret[Main].v = 0

\* The caller is inside a call of Upgrade or Downgrade.
InCall == pc[Main] \notin {"idle", "done"}

\* The scripts indexed in the direction of the call.
Indexed4(o) == IF o = "up" THEN DOMAIN upgrades ELSE DOMAIN downgrades

\* C34 (bound): a call has committed at most as many steps as there are
\* scripts indexed in its direction, no script twice, and the stored
\* version is the version at the call plus or minus the number of steps.
C34_StepsBounded ==
    ( op[Main] # "none" )
    => /\ Len(ran[Main]) <= Cardinality(Indexed4(op[Main]))
       /\ \A i, j \in DOMAIN ran[Main] :
            ran[Main][i] = ran[Main][j] => i = j
       /\ db.version = Reached

\* C34 (step): the stored version changes only in the commit of a step,
\* by one, up in Upgrade and down in Downgrade, and toward the target:
\* an Upgrade with a target above 0 was below it, a Downgrade was above
\* its target.
C34_StepMovesTowardTarget ==
    ( db'.version # db.version )
    => /\ pc[Main] = "commit"
       /\ pc'[Main] = "loop"
       /\ ran'[Main] = Append(ran[Main], file[Main])
       /\ op[Main] = "up"
          => /\ db'.version = db.version + 1
             /\ target[Main] > 0 => db'.version <= target[Main]
       /\ op[Main] = "down"
          => /\ db'.version = db.version - 1
             /\ db'.version >= target[Main]

\* C34 (iteration): the head of the loop is reached from inside the call
\* only by the commit of a step; every other end of an iteration is the
\* return of the call.
C34_IterationReturnsOrCommits ==
    ( InCall /\ pc'[Main] # pc[Main] /\ pc'[Main] \in {"loop", "done"} )
    => \/ pc'[Main] = "done"
       \/ /\ pc[Main] = "commit"
          /\ db'.version # db.version

\* C34 (end): a call that was made returns.
C34_CallReturns == InCall ~> (pc[Main] = "done")

\* C34: every call of Upgrade and Downgrade by a single caller ends, for
\* any index and any target: an iteration of the loop returns or commits
\* a step that moves the stored version by one toward the target, so a
\* call runs at most as many steps as scripts are indexed in its
\* direction.
C34_EveryCallTerminates ==
    /\ []C34_StepsBounded
    /\ [][C34_StepMovesTowardTarget /\ C34_IterationReturnsOrCommits]_vars
    /\ C34_CallReturns

\* A Downgrade to below 0 from the highest version has returned after
\* as many steps as there are downgrade scripts.
C34_Witness ==
    /\ Done
    /\ op[Main] = "down"
    /\ target[Main] < 0
    /\ start[Main] = MaxV
    /\ Len(ran[Main]) = MaxV
    /\ Cardinality(DOMAIN downgrades) = MaxV
    /\ db.version = 0

----------------------------------------------------------------------------
(* Claims about targets below 1 *)

\* The call of Upgrade that New made has returned, and New is about to.
NewUpgradeDone == made.phase = "upgrade" /\ pc[Main] = "done"

\* C35 (call part): a call of Upgrade with a target below 1 has no
\* ceiling, whether the target is 0 or negative: the loop head decides as
\* it does for UpgradeAll at every version; a call that met no failure
\* returned (K, nil) with K the last version before the first gap of the
\* index above the version it started at, having run the scripts up to K
\* in order; and a call that returned without error stopped where the
\* index has no next script or the script file does not exist.
C35_BelowOneIsNoCeiling ==
    ( op[Main] = "up" /\ target[Main] < 1 )
    => /\ \A v \in 0 .. (MaxV + 1) :
            UpgradeReached(target[Main], v)
               = UpgradeReached(UpgradeAll, v)
       /\ ( Done /\ Clean )
          => /\ ret[Main] = [v |-> FirstGap(start[Main]) - 1,
                             err |-> NoError]
             /\ db.version = FirstGap(start[Main]) - 1
             /\ ran[Main] = UpRun(start[Main], FirstGap(start[Main]) - 1)
       /\ ( Done /\ ret[Main].err = NoError )
          => \/ NextVersion(db.version) \notin DOMAIN upgrades
             \/ fault[Main] = "notexist"

\* C35 (New, call): New with a script source and a MaxVersion other than
\* UpgradeNone calls Upgrade(MaxVersion), negative or not; with
\* UpgradeNone it calls no Upgrade.
C35_NewCallsUpgrade ==
    ( made.phase = "none" /\ made'.phase # "none" /\ made'.d = "db" )
    => IF ~made'.opts.VersionFS.nil
          /\ made'.opts.MaxVersion # UpgradeNone
       THEN /\ made'.phase = "upgrade"
            /\ pc'[Main] = "loop"
            /\ op'[Main] = "up"
            /\ target'[Main] = made'.opts.MaxVersion
       ELSE /\ made'.phase = "returned"
            /\ pc'[Main] = "idle"
            /\ db' = db

\* C35 (New, result): when New was given a MaxVersion below 1 other than
\* UpgradeNone and its Upgrade met no failure, New returns with every
\* consecutively indexed upgrade script applied, and with no error of the
\* upgrade.
C35_NewUpgradesInFull ==
    ( /\ NewUpgradeDone
      /\ made.opts.MaxVersion < 1
      /\ Clean )
    => /\ made.opts.MaxVersion # UpgradeNone
       /\ target[Main] = made.opts.MaxVersion
       /\ db.version = FirstGap(start[Main]) - 1
       /\ ran[Main] = UpRun(start[Main], FirstGap(start[Main]) - 1)
       /\ ret[Main].err = NoError

\* C35: a target below 1 means no ceiling for Upgrade. Upgrade(v) with
\* v < 0 applies every consecutively indexed upgrade script as Upgrade(0)
\* does, and New with a negative MaxVersion other than UpgradeNone makes
\* the full upgrade; it neither skips nor refuses it.
C35_NegativeTargetUpgradesAll ==
    /\ [](C35_BelowOneIsNoCeiling /\ C35_NewUpgradesInFull)
    /\ [][C35_NewCallsUpgrade]_vars

\* New with MaxVersion = -2 on a fresh database has run every upgrade
\* script and returned no error.
C35_Witness ==
    /\ Returned
    /\ made.opts.MaxVersion = UpgradeNone - 1
    /\ made.err = NilErr
    /\ op[Main] = "up"
    /\ target[Main] = UpgradeNone - 1
    /\ Done
    /\ start[Main] = 0
    /\ Len(ran[Main]) = MaxV
    /\ db.version = MaxV

----------------------------------------------------------------------------
(* Shape of the state *)

DBStates ==
    [version : -1 .. MaxV + 1,
     applied : [Versions -> -1 .. 2],
     partial : SUBSET FileNames]

TypeOK ==
    /\ DOMAIN upgrades \subseteq Versions
    /\ DOMAIN downgrades \subseteq Versions
    /\ db \in DBStates
    /\ writer \in {NoWriter} \cup Callers
    /\ \A c \in Callers :
        /\ tx[c].open \in BOOLEAN
        /\ pc[c] \in {"idle", "loop", "open", "begin", "exec", "pragma",
                      "commit", "done"}
        /\ op[c] \in {"none", "up", "down"}
        /\ target[c] \in Targets
        /\ ret[c].err \in {NoError} \cup Faults
        /\ fault[c] \in {"none"} \cup Faults

====
